---- MODULE Spec2Model ----
(***************************************************************************)
(* Outcome forecasting engine of APOLLO_Gov_Proposal_System.               *)
(*                                                                         *)
(* forecast_outcomes (src/src/agents/outcome_forecaster.py) and the        *)
(* margin-of-error benchmark (src/scripts/bench_moe_compare.py) are pure   *)
(* functions of a context mapping, the historical rates and the model      *)
(* file.  They are operators here; the state machine lets a caller build   *)
(* a context key by key, install a historical-rates lookup and a model     *)
(* file, and then call forecast_outcomes.                                  *)
(*                                                                         *)
(* The benchmark's _n_effective, apply_calibration                         *)
(* (src/src/analysis/calibration.py) and compare_predictions               *)
(* (src/src/analysis/prediction_evaluator.py) have a specification each:   *)
(* SpecBench, SpecCalibration and SpecEvaluation build the arguments of    *)
(* one call and make it.                                                   *)
(*                                                                         *)
(* Numbers are fixed point.  Feature values are in thousandths (0.5 is     *)
(* 500), probabilities, margins and confidences in millionths (0.5 is      *)
(* 500000), the benchmark's Wilson arithmetic in ten-thousandths.  NaN     *)
(* and infinities are not modelled.                                        *)
(***************************************************************************)
EXTENDS Integers, Sequences, FiniteSets, TLC

VARIABLES context, rates, modelFile, pc, result, bench, calibration, evaluation,
          training, referenda, governor, mainrun, race

vars == <<context, rates, modelFile, pc, result, bench, calibration, evaluation,
          training, referenda, governor, mainrun, race>>

\* training, the referenda updater, the execution wait, the pipeline run and
\* the forecast racing a training run, each with its own specification below
later == <<training, referenda, governor, mainrun, race>>

\* the benchmark's estimator call, the calibration call and the evaluator
\* call, each with its own specification below
others == <<bench, calibration, evaluation, later>>

(* ----------------------------- bounds --------------------------------- *)

\* the caller sets at most this many keys of the context
MaxKeys == 2

(* ------------------------- Python values ------------------------------ *)

None == [t |-> "none"]
Num(v) == [t |-> "num", v |-> v]
\* a string that is not a number: w one-letter words separated by single
\* spaces (w = 0: the empty string)
Str(w) == [t |-> "str", w |-> w]
\* a one-word string with its text, for the names of sources
Name(s) == [t |-> "str", w |-> 1, s |-> s]
\* a list of n elements
List(n) == [t |-> "list", n |-> n]
\* a dict: d is a function from its keys to Python values
Dict(d) == [t |-> "dict", d |-> d]

EmptyDict == Dict(<<>>)

IsDict(x) == x.t = "dict"

\* dict.get(k): None when the key is absent
Get(d, k) == IF k \in DOMAIN d THEN d[k] ELSE None

\* Python truthiness, as "x or y" and "if x" test it
Truthy(x) ==
    CASE x.t = "none" -> FALSE
      [] x.t = "num"  -> x.v # 0
      [] x.t = "str"  -> x.w > 0
      [] x.t = "list" -> x.n > 0
      [] x.t = "dict" -> DOMAIN x.d # {}

\* x or y
Or(x, y) == IF Truthy(x) THEN x ELSE y

\* float(x) returns for a number and raises ValueError/TypeError otherwise
FloatRaises(x) == x.t # "num"

FloatOf(x) == x.v

\* max(lo, min(hi, v))
Clamp(v, lo, hi) == IF v < lo THEN lo ELSE IF v > hi THEN hi ELSE v

Abs(v) == IF v < 0 THEN -v ELSE v

RECURSIVE SumSeq(_)
SumSeq(s) == IF s = <<>> THEN 0 ELSE Head(s) + SumSeq(Tail(s))

\* floor of the square root, by bisection on [lo, hi]
RECURSIVE SqrtBetween(_, _, _)
SqrtBetween(x, lo, hi) ==
    IF lo >= hi THEN lo
    ELSE LET mid == (lo + hi + 1) \div 2
         IN  IF mid * mid <= x THEN SqrtBetween(x, mid, hi)
             ELSE SqrtBetween(x, lo, mid - 1)

ISqrt(x) == IF x <= 0 THEN 0 ELSE SqrtBetween(x, 0, 46340)

(* ------------------- historical rates and model file ------------------ *)

\* what load_historical_rates can do: raise, or return a mapping
RatesChoices ==
    { [t |-> "raises"],
      Dict([approval_rate |-> Num(500), turnout |-> Num(500), turnout_trend |-> Num(0)]),
      Dict([approval_rate |-> Num(1200), turnout |-> Num(-100), turnout_trend |-> Num(50)]),
      Dict([approval_rate |-> Num(100), turnout |-> Num(300)]) }

\* lines 56-68: the baseline taken from the historical rates
BaselineOf(r) ==
    LET ok == r.t = "dict"
        approval_prob    == IF ok /\ "approval_rate" \in DOMAIN r.d THEN r.d["approval_rate"].v ELSE 500
        turnout_estimate == IF ok /\ "turnout" \in DOMAIN r.d THEN r.d["turnout"].v ELSE 0
        turnout_trend    == IF ok /\ "turnout_trend" \in DOMAIN r.d THEN r.d["turnout_trend"].v ELSE 0
    IN  [approval_prob    |-> Clamp(approval_prob, 0, 1000),
         turnout_estimate |-> Clamp(turnout_estimate, 0, 1000),
         turnout_trend    |-> turnout_trend]

(* ------------------------ feature extraction -------------------------- *)

FeatureNames ==
    {"approval_rate", "turnout", "sentiment", "trending", "proposal_length",
     "engagement_weight", "turnout_trend", "source_sentiment_avg",
     "comment_turnout_trend"}

\* lines 71-75: the value the sentiment is read from
SentimentVal(ctx) ==
    LET top == Get(ctx, "sentiment_score")
        s   == Get(ctx, "sentiment")
    IN  IF top.t # "none" THEN top
        ELSE IF IsDict(s) THEN Or(Get(s.d, "sentiment_score"), Get(s.d, "score"))
        ELSE s

\* lines 91-97
TrendingVal(ctx) ==
    LET a == Get(ctx, "trend_score")
        b == Get(ctx, "trending_score")
        c == Get(ctx, "trending")
    IN  IF a.t # "none" THEN a
        ELSE IF b.t # "none" THEN b
        ELSE IF IsDict(c) THEN Or(Get(c.d, "score"), Get(c.d, "trending_score"))
        ELSE c

\* lines 101-105
CommentTrendVal(ctx) ==
    LET a == Get(ctx, "comment_turnout_trend")
        b == Get(ctx, "turnout_trends")
    IN  IF a.t # "none" THEN a
        ELSE IF IsDict(b) THEN Or(Get(b.d, "comments"), Get(b.d, "comment"))
        ELSE b

\* lines 119-123
WeightVal(ctx) ==
    LET a == Get(ctx, "engagement_weight")
        b == Get(ctx, "sentiment")
    IN  IF a.t # "none" THEN a
        ELSE IF IsDict(b) THEN Get(b.d, "weight")
        ELSE b

\* lines 109-113
ProposalTextVal(ctx) ==
    LET a == Get(ctx, "proposal_text")
        b == Get(ctx, "proposal")
    IN  IF a.t # "none" THEN a
        ELSE IF IsDict(b) THEN Or(Get(b.d, "text"), Get(b.d, "proposal_text"))
        ELSE None

\* len(str(x).split()): the words of the text form of a value
WordCount(x) ==
    CASE x.t = "str"  -> x.w
      [] x.t = "num"  -> 1
      [] x.t = "list" -> IF x.n = 0 THEN 1 ELSE x.n
      [] x.t = "dict" -> IF DOMAIN x.d = {} THEN 1 ELSE 2 * Cardinality(DOMAIN x.d)
      [] x.t = "none" -> 1

\* lines 114-117, in thousandths of a word
ProposalLength(ctx) ==
    LET x == ProposalTextVal(ctx)
    IN  IF Truthy(x) THEN 1000 * WordCount(x) ELSE 0

\* the values of a dict, in some order
RECURSIVE ValuesOf(_)
ValuesOf(d) ==
    IF DOMAIN d = {} THEN <<>>
    ELSE LET k == CHOOSE x \in DOMAIN d : TRUE
         IN  <<d[k]>> \o ValuesOf([x \in DOMAIN d \ {k} |-> d[x]])

\* line 79
SrcSent(ctx) == Or(Get(ctx, "source_sentiments"), Get(ctx, "sentiment_sources"))

\* lines 80-89: one failing float() discards the whole list
SourceSentimentValues(ctx) ==
    LET src_sent == SrcSent(ctx)
        vals     == ValuesOf(src_sent.d)
    IN  IF IsDict(src_sent) /\ Truthy(src_sent)
        THEN IF \E i \in 1..Len(vals) : FloatRaises(vals[i])
             THEN <<>>
             ELSE [i \in 1..Len(vals) |-> FloatOf(vals[i])]
        ELSE <<>>

\* np.mean, _mean
Mean(xs) == IF xs = <<>> THEN 0 ELSE SumSeq(xs) \div Len(xs)

\* np.std, _pop_std: the population standard deviation
PopStd(xs) ==
    IF xs = <<>> THEN 0
    ELSE LET m == Mean(xs)
         IN  ISqrt(SumSeq([i \in 1..Len(xs) |-> (xs[i] - m) * (xs[i] - m)]) \div Len(xs))

\* lines 70-136: the features, or the exception of an unguarded float()
ExtractFeatures(ctx, base) ==
    LET sentiment_val  == Or(SentimentVal(ctx), Num(0))
        trending_val   == Or(TrendingVal(ctx), Num(0))
        comment_val    == Or(CommentTrendVal(ctx), Num(0))
        weight_val     == Or(WeightVal(ctx), Num(0))
        values         == SourceSentimentValues(ctx)
        raised == \/ FloatRaises(sentiment_val)
                  \/ FloatRaises(trending_val)
                  \/ FloatRaises(comment_val)
                  \/ FloatRaises(weight_val)
    IN  IF raised
        THEN [raised |-> TRUE, features |-> <<>>, source_sentiment_values |-> <<>>]
        ELSE [raised |-> FALSE,
              features |->
                [approval_rate         |-> base.approval_prob,
                 turnout               |-> base.turnout_estimate,
                 sentiment             |-> FloatOf(sentiment_val),
                 trending              |-> FloatOf(trending_val),
                 proposal_length       |-> ProposalLength(ctx),
                 engagement_weight     |-> FloatOf(weight_val),
                 turnout_trend         |-> base.turnout_trend,
                 source_sentiment_avg  |-> Mean(values),
                 comment_turnout_trend |-> FloatOf(comment_val)],
              source_sentiment_values |-> values]

(* ------------------------------ the model ----------------------------- *)

\* the states of models/referendum_model.json
Absent == [t |-> "absent"]
Corrupt == [t |-> "corrupt"]
Json(v) == [t |-> "json", v |-> v]

\* lines 19-29: None when the file is missing, unreadable or not JSON
LoadModel(file) == IF file.t = "json" THEN file.v ELSE None

\* dict.get(k, default)
GetOr(d, k, default) == IF k \in DOMAIN d THEN d[k] ELSE default

RECURSIVE SumOver(_, _)
SumOver(S, f) ==
    IF S = {} THEN 0
    ELSE LET k == CHOOSE x \in S : TRUE
         IN  f[k] + SumOver(S \ {k}, f)

\* 1000000 / (1 + e^(-k/4)) for k = 0..40
SigmoidTable ==
    <<500000, 562177, 622459, 679179, 731059, 777300, 817574, 851953, 880797,
      904651, 924142, 939913, 952574, 962673, 970688, 977023, 982014, 985936,
      989013, 991423, 993307, 994780, 995930, 996827, 997527, 998073, 998499,
      998830, 999089, 999290, 999447, 999569, 999665, 999739, 999797, 999842,
      999877, 999904, 999925, 999942, 999955>>

\* 1/(1+exp(-z)) for z >= 0 in millionths: the table, interpolated linearly
SigmoidPos(z) ==
    LET k == z \div 250000
        r == (z % 250000) \div 1000
    IN  IF k >= 40 THEN SigmoidTable[41]
        ELSE SigmoidTable[k + 1]
             + ((SigmoidTable[k + 2] - SigmoidTable[k + 1]) * r) \div 250

\* line 50: 1.0 / (1.0 + np.exp(-z))
Sigmoid(z) == IF z >= 0 THEN SigmoidPos(z) ELSE 1000000 - SigmoidPos(-z)

\* lines 46-49 raise when the model is no mapping, or the intercept or a
\* coefficient that is used is no number
ApplyModelRaises(model, features) ==
    \/ ~IsDict(model)
    \/ GetOr(model.d, "intercept", Num(0)).t # "num"
    \/ ~IsDict(GetOr(model.d, "coefficients", EmptyDict))
    \/ \E name \in DOMAIN features :
          GetOr(GetOr(model.d, "coefficients", EmptyDict).d, name, Num(0)).t # "num"

\* mutant: a feature without a coefficient is weighted 1.0 instead of 0.0
ModelZ_DefaultOne(model, features) ==
    LET coeffs == GetOr(model.d, "coefficients", EmptyDict).d
    IN  1000 * GetOr(model.d, "intercept", Num(0)).v
        + SumOver(DOMAIN features,
                  [name \in DOMAIN features |-> GetOr(coeffs, name, Num(1000)).v * features[name]])

\* lines 46-49: z in millionths
ModelZ(model, features) ==
    LET coeffs == GetOr(model.d, "coefficients", EmptyDict).d
    IN  1000 * GetOr(model.d, "intercept", Num(0)).v
        + SumOver(DOMAIN features,
                  [name \in DOMAIN features |-> GetOr(coeffs, name, Num(0)).v * features[name]])

\* mutant: a failure inside _apply_model is swallowed and 0.5 returned
ApplyModel_SwallowsError(model, features) ==
    IF ApplyModelRaises(model, features)
    THEN [raised |-> FALSE, p |-> 500000]
    ELSE [raised |-> FALSE, p |-> Sigmoid(ModelZ(model, features))]

\* lines 32-50
ApplyModel(model, features) ==
    IF ApplyModelRaises(model, features)
    THEN [raised |-> TRUE, p |-> 0]
    ELSE [raised |-> FALSE, p |-> Sigmoid(ModelZ(model, features))]

\* mutant: the proposal_length term is left out
Adjustments_NoLength(features) ==
    180 * features["sentiment"]
    + 120 * features["source_sentiment_avg"]
    + 100 * features["trending"]
    + 150 * features["comment_turnout_trend"]
    + 80 * features["turnout_trend"]
    + 60 * (features["turnout"] - 500)
    + 70 * (features["engagement_weight"] - 500)

\* mutant: the sentiment term is subtracted
Adjustments_NegativeSentiment(features) ==
    (-180) * features["sentiment"]
    + 120 * features["source_sentiment_avg"]
    + 100 * features["trending"]
    + 150 * features["comment_turnout_trend"]
    + 80 * features["turnout_trend"]
    + 60 * (features["turnout"] - 500)
    + 70 * (features["engagement_weight"] - 500)
    + (30 * features["proposal_length"]) \div 500

\* lines 152-161, in millionths
Adjustments(features) ==
    180 * features["sentiment"]
    + 120 * features["source_sentiment_avg"]
    + 100 * features["trending"]
    + 150 * features["comment_turnout_trend"]
    + 80 * features["turnout_trend"]
    + 60 * (features["turnout"] - 500)
    + 70 * (features["engagement_weight"] - 500)
    + (30 * features["proposal_length"]) \div 500

\* mutant: the final clamp of line 164 is missing
ApprovalProb_Unclamped(file, features) ==
    LET model   == LoadModel(file)
        applied == IF model.t # "none" THEN ApplyModel(model, features)
                   ELSE [raised |-> TRUE, p |-> 0]
        model_applied == ~applied.raised
        approval_prob == IF model_applied THEN applied.p
                         ELSE 1000 * features["approval_rate"] + Adjustments(features)
    IN  [model_applied |-> model_applied,
         approval_prob |-> approval_prob]

\* lines 141-164: the approval probability in millionths, and whether the
\* model was applied
ApprovalProb(file, features) ==
    LET model   == LoadModel(file)
        applied == IF model.t # "none" THEN ApplyModel(model, features)
                   ELSE [raised |-> TRUE, p |-> 0]
        model_applied == ~applied.raised
        approval_prob == IF model_applied THEN applied.p
                         ELSE 1000 * features["approval_rate"] + Adjustments(features)
    IN  [model_applied |-> model_applied,
         approval_prob |-> Clamp(approval_prob, 0, 1000000)]

\* lines 170-176, in thousandths
SentimentSpread(values, sentiment) ==
    IF Len(values) > 1 THEN PopStd(values)
    ELSE IF Len(values) = 1 THEN Abs(values[1] - sentiment) \div 2
    ELSE (3 * Abs(sentiment)) \div 10

\* line 178
TurnoutVolatility(features) ==
    Abs(features["turnout_trend"]) + Abs(features["comment_turnout_trend"])

\* line 179
EngagementFactor(features) == Clamp(features["engagement_weight"], 0, 1000)

\* lines 181-183, in millionths
MarginOfError(features, values) ==
    LET base_margin == 80000 + 220 * TurnoutVolatility(features)
                       + 120 * SentimentSpread(values, features["sentiment"])
        scaled == (base_margin * (1000 - (35 * EngagementFactor(features)) \div 100)) \div 1000
    IN  Clamp(scaled, 20000, 450000)

\* lines 185-187, in millionths
Confidence(margin_of_error, features) ==
    Clamp(1000000 - margin_of_error
          + 100 * Abs(features["sentiment"])
          + 50 * Abs(features["source_sentiment_avg"]),
          50000, 950000)

Raised == [raised |-> TRUE]

\* lines 53-194
ForecastOutcomes(ctx, r, file) ==
    LET base == BaselineOf(r)
        ex   == ExtractFeatures(ctx, base)
        ap   == ApprovalProb(file, ex.features)
        moe  == MarginOfError(ex.features, ex.source_sentiment_values)
    IN  IF ex.raised THEN Raised
        ELSE [raised           |-> FALSE,
              features         |-> ex.features,
              source_sentiment_values |-> ex.source_sentiment_values,
              model_applied    |-> ap.model_applied,
              approval_prob    |-> ap.approval_prob,
              turnout_estimate |-> 1000 * base.turnout_estimate,
              margin_of_error  |-> moe,
              confidence       |-> Confidence(moe, ex.features)]

(* ------------------ bench_moe_compare.py: both policies --------------- *)

\* str.lower() on the source names used here
Lower(s) ==
    CASE s = "Chat"  -> "chat"
      [] s = "FORUM" -> "forum"
      [] s = "Forum" -> "forum"
      [] s = "LINEAR" -> "linear"
      [] s = "Points" -> "points"
      [] s = "News"  -> "news"
      [] OTHER       -> s

\* len(x or []), 0 when len() raises
LenOf(x) ==
    CASE x.t = "list" -> x.n
      [] x.t = "dict" -> Cardinality(DOMAIN x.d)
      [] x.t = "str"  -> IF x.w = 0 THEN 0 ELSE 2 * x.w - 1
      [] OTHER        -> 0

\* bench lines 89-109 and 121-124: the source and the coverage counts
Coverage(ctx) ==
    LET sent_wrap == Get(ctx, "sentiment")
        src == IF IsDict(sent_wrap) THEN Get(sent_wrap.d, "source") ELSE None
        kb  == IF IsDict(sent_wrap) THEN Or(Get(sent_wrap.d, "message_size_kb"), Num(0)) ELSE Num(0)
    IN  [primary_source |-> IF ~Truthy(src) THEN ""
                            ELSE IF src.t = "str" /\ "s" \in DOMAIN src THEN src.s
                            ELSE "?",
         ctx_kb     |-> IF FloatRaises(kb) THEN 0 ELSE FloatOf(kb),
         topics_n   |-> LenOf(Get(ctx, "trending_topics")),
         snippets_n |-> LenOf(Get(ctx, "kb_snippets"))]

\* the lookup of bench lines 145-153 on the name as given, letter case kept
BaseN_CaseSensitive(primary_source) ==
    CASE primary_source = "forum"        -> 250
      [] primary_source = "news"         -> 200
      [] primary_source = "chat"         -> 120
      [] primary_source = "onchain"      -> 100
      [] primary_source = "governance"   -> 220
      [] primary_source = "consolidated" -> 300
      [] OTHER                           -> 150

\* bench lines 145-153: the base count of a source
BaseN(primary_source) ==
    LET src == Lower(primary_source)
    IN  CASE src = "forum"        -> 250
          [] src = "news"         -> 200
          [] src = "chat"         -> 120
          [] src = "onchain"      -> 100
          [] src = "governance"   -> 220
          [] src = "consolidated" -> 300
          [] OTHER                -> 150

\* bench lines 154-159: the sum N in tenths; ctx_kb in thousandths, the
\* counts in units
NSum(cov) ==
    10 * BaseN(cov.primary_source) + cov.ctx_kb \div 10
    + 200 * cov.topics_n + 150 * cov.snippets_n

\* bench lines 144-164: N_eff in tenths; engagement_weight in thousandths
NEffective(cov, engagement_weight) ==
    Clamp((NSum(cov) * (2000 + engagement_weight)) \div 2000, 300, 50000)

\* bench lines 144-164 on a features mapping of Python values: the lookup
\* calls lower() on the source and the sum multiplies ctx_kb, topics_n and
\* snippets_n before the try, so only float(engagement_weight) is guarded.
\* ctx_kb and engagement_weight are in thousandths, the counts in units.
NEffectiveCall(features) ==
    LET src == features["primary_source"]
        cov == [primary_source |-> src.s,
                ctx_kb     |-> features["ctx_kb"].v,
                topics_n   |-> features["topics_n"].v,
                snippets_n |-> features["snippets_n"].v]
        ew  == features["engagement_weight"]
    IN  IF \/ src.t # "str"
           \/ features["ctx_kb"].t # "num"
           \/ features["topics_n"].t # "num"
           \/ features["snippets_n"].t # "num"
        THEN Raised
        ELSE IF FloatRaises(ew)
        THEN [raised |-> FALSE, N |-> Clamp(NSum(cov), 300, 50000)]
        ELSE [raised |-> FALSE, N |-> NEffective(cov, FloatOf(ew))]

\* bench lines 128-141: the heuristic probability without the length term
HeuristicProb(features) ==
    Clamp(1000 * features["approval_rate"]
          + 180 * features["sentiment"]
          + 120 * features["source_sentiment_avg"]
          + 100 * features["trending"]
          + 150 * features["comment_turnout_trend"]
          + 80 * features["turnout_trend"]
          + 60 * (features["turnout"] - 500)
          + 70 * (features["engagement_weight"] - 500),
          0, 1000000)

\* z * sqrt(p (1 - p)) / sqrt(N_eff) in ten-thousandths; p in ten-thousandths
MoeStat(p, N) == (196 * ISqrt((10 * p * (10000 - p)) \div N)) \div 100

\* bench lines 167-187: the legacy policy, in ten-thousandths
MoeOld(features, values, cov, p) ==
    LET base_margin == 80000 + 220 * TurnoutVolatility(features)
                       + 120 * SentimentSpread(values, features["sentiment"])
        scaled == (base_margin * (1000 - (35 * EngagementFactor(features)) \div 100)) \div 1000
        margin_heuristic == Clamp(scaled, 20000, 450000) \div 100
        N_eff == NEffective(cov, features["engagement_weight"])
    IN  Clamp((margin_heuristic + MoeStat(p \div 100, N_eff)) \div 2, 100, 4500)

\* bench lines 205-215: the Wilson half-width in ten-thousandths
MoeWilson(p, N) ==
    LET denom  == 10000 + 384160 \div N
        center == ((p + 192080 \div N) * 10000) \div denom
        half   == 98000 \div N
        radius == (19600 * ISqrt((10 * p * (10000 - p)) \div N + half * half)) \div denom
        wilson_low  == IF center - radius < 0 THEN 0 ELSE center - radius
        wilson_high == IF center + radius > 10000 THEN 10000 ELSE center + radius
        moe_wilson  == (wilson_high - wilson_low) \div 2
    IN  IF moe_wilson > 0 THEN moe_wilson ELSE MoeStat(p, N)

\* bench lines 190-222: the updated policy, in ten-thousandths
MoeNew(features, values, cov, p) ==
    LET base_margin == 60000 + 180 * TurnoutVolatility(features)
                       + 100 * SentimentSpread(values, features["sentiment"])
        scaled == (base_margin * (1000 - (35 * EngagementFactor(features)) \div 100)) \div 1000
        margin_heuristic == Clamp(scaled, 20000, 450000) \div 100
        N_eff == NEffective(cov, features["engagement_weight"])
        w_heuristic == 40000000 \div (4000 + N_eff)
        w_stat == 10000 - w_heuristic
        margin == (w_heuristic * margin_heuristic + w_stat * MoeWilson(p \div 100, N_eff)) \div 10000
    IN  Clamp(margin, 100, 4500)

\* bench lines 225-228, in millionths
ConfidenceFromMoe(moe, features) ==
    Clamp(1000000 - moe
          + 50 * Abs(features["sentiment"])
          + 20 * Abs(features["source_sentiment_avg"]),
          50000, 990000)

(* --------------------------- the state machine ------------------------ *)

\* values a caller may put under a scalar key: numbers, and a string
ScalarValues == {Num(0), Num(500), Num(-400), Str(1)}

\* the recognized keys of the context and the values tried for each
CtxValues ==
    [sentiment_score       |-> ScalarValues,
     sentiment             |-> {Num(300), EmptyDict,
                                Dict([sentiment_score |-> Num(0), score |-> Num(250)]),
                                Dict([sentiment_score |-> Num(500), score |-> Num(250)]),
                                Dict([score |-> Num(250), weight |-> Num(700),
                                      source |-> Name("Chat"), message_size_kb |-> Num(50000)])},
     source_sentiments     |-> {EmptyDict,
                                Dict([chat |-> Num(250), forum |-> Num(100)]),
                                Dict([chat |-> Num(500), forum |-> Str(1)]),
                                Dict([news |-> Num(-400)]),
                                Dict([news |-> Num(-400), forum |-> Num(450), chat |-> Num(250)])},
     sentiment_sources     |-> {Dict([news |-> Num(300)])},
     trend_score           |-> {Num(0), Num(-50), List(1)},
     trending_score        |-> {Num(150)},
     trending              |-> {Num(100), Dict([score |-> Num(200)]),
                                Dict([score |-> Num(0), trending_score |-> Num(100)])},
     comment_turnout_trend |-> {Num(100), Num(-300), Num(2000), Str(1)},
     turnout_trends        |-> {Dict([comments |-> Num(100)]), Dict([comment |-> Num(-80)]),
                                List(2)},
     proposal_text         |-> {Str(0), Str(100)},
     proposal              |-> {Dict([text |-> Str(500)]), Dict([proposal_text |-> Str(250)])},
     engagement_weight     |-> {Num(0), Num(900), Num(-400), List(1)},
     trending_topics       |-> {List(3)},
     kb_snippets           |-> {List(4)}]

CtxKeys == DOMAIN CtxValues

\* the model files tried: missing, unreadable, JSON that is no model, models
ModelChoices ==
    { Absent, Corrupt, Json(None), Json(List(2)), Json(EmptyDict),
      Json(Dict([intercept |-> Num(200),
                 coefficients |-> Dict([sentiment |-> Num(1500), approval_rate |-> Num(1000),
                                        proposal_length |-> Num(2), volume |-> Num(5000)])])),
      Json(Dict([intercept |-> Num(-500),
                 coefficients |-> Dict([sentiment |-> Str(1), turnout |-> Num(800)])])) }

\* none of the later specifications' calls is under way
LaterIdle ==
    /\ training = None
    /\ referenda = None
    /\ governor = None
    /\ mainrun = None
    /\ race = None

Init ==
    /\ context = <<>>
    /\ rates = [t |-> "raises"]
    /\ modelFile = Absent
    /\ pc = "build"
    /\ result = None
    /\ bench = None
    /\ calibration = None
    /\ evaluation = None
    /\ LaterIdle

\* the caller sets one more key of the context
PutKey(k, v) ==
    /\ pc = "build"
    /\ k \notin DOMAIN context
    /\ Cardinality(DOMAIN context) < MaxKeys
    /\ context' = (k :> v) @@ context
    /\ UNCHANGED <<rates, modelFile, pc, result>>
    /\ UNCHANGED others

\* load_historical_rates is replaced by a lookup with this outcome
InstallRates(r) ==
    /\ pc = "build"
    /\ rates' = r
    /\ UNCHANGED <<context, modelFile, pc, result>>
    /\ UNCHANGED others

\* the model file is written, removed or damaged
WriteModelFile(f) ==
    /\ pc = "build"
    /\ modelFile' = f
    /\ UNCHANGED <<context, rates, pc, result>>
    /\ UNCHANGED others

\* context.setdefault("sentiment", {}) in the place of the get of line 125
ContextAfter_SetDefault(ctx) ==
    IF "sentiment" \in DOMAIN ctx THEN ctx ELSE ("sentiment" :> EmptyDict) @@ ctx

\* the context after the call: lines 53-194 read it with get only
ContextAfter(ctx) == ctx

\* forecast_outcomes(context)
Forecast ==
    /\ pc = "build"
    /\ result' = ForecastOutcomes(context, rates, modelFile)
    /\ pc' = "done"
    /\ context' = ContextAfter(context)
    /\ UNCHANGED <<rates, modelFile>>
    /\ UNCHANGED others

\* the caller repeats forecast_outcomes(context) after a finished call
ForecastAgain ==
    /\ pc \in {"done", "again"}
    /\ result' = ForecastOutcomes(context, rates, modelFile)
    /\ pc' = "again"
    /\ context' = ContextAfter(context)
    /\ UNCHANGED <<rates, modelFile>>
    /\ UNCHANGED others

Next ==
    \/ \E k \in CtxKeys : \E v \in CtxValues[k] : PutKey(k, v)
    \/ \E r \in RatesChoices : InstallRates(r)
    \/ \E f \in ModelChoices : WriteModelFile(f)
    \/ Forecast
    \/ ForecastAgain

Spec == Init /\ [][Next]_vars

Returned == pc = "done" /\ ~result.raised

(* ------------------------------- claims ------------------------------- *)

C2_NeverRaises == pc = "done" => ~result.raised

\* the model stage fails: no file, no JSON, or applying the model raises
ModelFails(features) ==
    \/ modelFile \in {Absent, Corrupt}
    \/ modelFile.t = "json" /\ ~IsDict(modelFile.v)
    \/ modelFile.t = "json" /\ IsDict(modelFile.v) /\
         \/ GetOr(modelFile.v.d, "intercept", Num(0)).t # "num"
         \/ ~IsDict(GetOr(modelFile.v.d, "coefficients", EmptyDict))
         \/ \E n \in FeatureNames :
               GetOr(GetOr(modelFile.v.d, "coefficients", EmptyDict).d, n, Num(0)).t # "num"

\* the heuristic value of the claims, from the clamped historical rates and
\* the features of the result, in millionths
HeuristicExpected ==
    LET f == result.features
        approval_rate == Clamp(IF rates.t = "dict" /\ "approval_rate" \in DOMAIN rates.d
                               THEN rates.d["approval_rate"].v ELSE 500, 0, 1000)
        turnout == Clamp(IF rates.t = "dict" /\ "turnout" \in DOMAIN rates.d
                         THEN rates.d["turnout"].v ELSE 0, 0, 1000)
    IN  Clamp(1000 * approval_rate
              + 180 * f["sentiment"] + 120 * f["source_sentiment_avg"]
              + 100 * f["trending"] + 150 * f["comment_turnout_trend"]
              + 80 * f["turnout_trend"] + 60 * (turnout - 500)
              + 70 * (f["engagement_weight"] - 500)
              + (30 * f["proposal_length"]) \div 500,
              0, 1000000)

\* C3: when the features were extracted and the model stage fails, the
\* forecast returns, and its approval_prob is exactly the heuristic value.
C3_ModelFailureFallsBack ==
    (pc = "done" /\ ~ExtractFeatures(context, BaselineOf(rates)).raised
       /\ ModelFails(ExtractFeatures(context, BaselineOf(rates)).features)) =>
        /\ ~result.raised
        /\ ~result.model_applied
        /\ result.approval_prob = HeuristicExpected

\* a model whose sentiment coefficient is a string was loaded, and the
\* forecast moved away from the baseline
C3_Witness ==
    /\ Returned
    /\ modelFile.t = "json" /\ IsDict(modelFile.v)
    /\ ModelFails(result.features)
    /\ result.features["sentiment"] # 0
    /\ result.approval_prob # 1000 * result.features["approval_rate"]
    /\ result.approval_prob \in 1..999999

\* C4: on the heuristic path approval_prob is the clamped sum of the baseline
\* and the eight weighted terms; the benchmark's _heuristic_prob is that sum
\* for a proposal of length 0.
C4_HeuristicFormula ==
    (Returned /\ ~result.model_applied) =>
        /\ result.approval_prob = HeuristicExpected
        /\ result.features["proposal_length"] = 0 =>
              HeuristicProb(result.features) = result.approval_prob

C4_Witness ==
    /\ Returned
    /\ ~result.model_applied
    /\ result.features["proposal_length"] > 0
    /\ result.features["sentiment"] # 0
    /\ result.approval_prob \in 1..999999

\* the model file holds a mapping with a numeric intercept and numeric
\* coefficients
WellFormedModel ==
    /\ modelFile.t = "json" /\ IsDict(modelFile.v)
    /\ GetOr(modelFile.v.d, "intercept", Num(0)).t = "num"
    /\ IsDict(GetOr(modelFile.v.d, "coefficients", EmptyDict))
    /\ \A n \in DOMAIN GetOr(modelFile.v.d, "coefficients", EmptyDict).d :
          GetOr(modelFile.v.d, "coefficients", EmptyDict).d[n].t = "num"

\* z over exactly the names that are both a coefficient and a feature
ZExpected ==
    LET coeffs == GetOr(modelFile.v.d, "coefficients", EmptyDict).d
        both   == DOMAIN coeffs \cap DOMAIN result.features
    IN  1000 * GetOr(modelFile.v.d, "intercept", Num(0)).v
        + SumOver(both, [n \in both |-> coeffs[n].v * result.features[n]])

\* C5: with a well-formed model loaded the forecast is sigmoid(z), z the
\* intercept plus the products over the names present in both maps, the
\* features being the nine canonical ones.
C5_ModelApplication ==
    (Returned /\ WellFormedModel) =>
        /\ result.model_applied
        /\ DOMAIN result.features = FeatureNames
        /\ result.approval_prob = Clamp(Sigmoid(ZExpected), 0, 1000000)

\* the model has a coefficient that is no feature, the context a feature
\* that has no coefficient, and a coefficient met a non-zero feature
C5_Witness ==
    /\ Returned /\ WellFormedModel
    /\ "volume" \in DOMAIN GetOr(modelFile.v.d, "coefficients", EmptyDict).d
    /\ result.features["trending"] # 0
    /\ result.features["sentiment"] # 0
    /\ result.approval_prob # 500000

\* the benchmark's features for the forecast's context
UpdatedMargin ==
    MoeNew(result.features, result.source_sentiment_values, Coverage(context),
           result.approval_prob)

\* C6: the margin_of_error of the forecast is the updated-policy margin
\* (heuristic term blended with the Wilson half-width by N_eff), to within
\* 0.001.
C6_UpdatedMargin ==
    Returned => Abs(result.margin_of_error \div 100 - UpdatedMargin) <= 10

\* C7: the confidence of the forecast is the benchmark's
\* _confidence_from_moe of the forecast's margin and features.
C7_ConfidenceAgrees ==
    Returned => result.confidence = ConfidenceFromMoe(result.margin_of_error, result.features)

\* the first value present among context.sentiment_score,
\* context.sentiment.sentiment_score and context.sentiment.score
FirstPresentSentiment ==
    LET s == Get(context, "sentiment")
        a == Get(context, "sentiment_score")
        b == IF IsDict(s) THEN Get(s.d, "sentiment_score") ELSE None
        c == IF IsDict(s) THEN Get(s.d, "score") ELSE None
    IN  IF a.t # "none" THEN a ELSE IF b.t # "none" THEN b ELSE IF c.t # "none" THEN c
        ELSE Num(0)

\* C8: with context.sentiment absent or a mapping, the sentiment feature is
\* the first value present in the documented order, the number 0 included.
C8_FirstPresentWins ==
    (Returned /\ Get(context, "sentiment").t \in {"none", "dict"}
       /\ FirstPresentSentiment.t = "num") =>
        result.features["sentiment"] = FirstPresentSentiment.v

\* the numeric values of a per-source map, the others dropped
NumericValues(d) ==
    LET vals == SelectSeq(ValuesOf(d), LAMBDA v : v.t = "num")
    IN  [i \in 1..Len(vals) |-> vals[i].v]

\* C9: source_sentiment_values are the numeric values of the per-source
\* map, non-numeric ones dropped, and source_sentiment_avg is their mean.
C9_NonNumericDropped ==
    (Returned /\ IsDict(SrcSent(context))) =>
        /\ result.source_sentiment_values = NumericValues(SrcSent(context).d)
        /\ result.features["source_sentiment_avg"] = Mean(NumericValues(SrcSent(context).d))

\* the sentiments a second context is given
SentimentProbes == {-1000, -400, 0, 250, 500, 1000}

\* the forecast for the context that differs only in its sentiment
ForecastWithSentiment(s) ==
    ForecastOutcomes(("sentiment_score" :> Num(s)) @@ context, rates, modelFile)

\* C10: on the heuristic path a larger sentiment, all else equal, gives a
\* strictly larger approval_prob.
C10_StrictlyIncreasing ==
    (Returned /\ ~result.model_applied) =>
        \A s \in SentimentProbes :
            s > result.features["sentiment"] =>
                ForecastWithSentiment(s).approval_prob > result.approval_prob

\* C10 as amended: a larger sentiment gives an approval_prob at least as
\* large, and an equal one only when both are clamped to the same end of
\* [0,1].
C10_IncreasingUpToClamp ==
    (Returned /\ ~result.model_applied) =>
        \A s \in SentimentProbes :
            s > result.features["sentiment"] =>
                /\ ForecastWithSentiment(s).approval_prob >= result.approval_prob
                /\ ForecastWithSentiment(s).approval_prob = result.approval_prob
                     => result.approval_prob \in {0, 1000000}

\* both cases happen from one state: a probe is clamped to the same value,
\* and the forecast itself lies strictly above a forecast of less sentiment
C10_Witness ==
    /\ Returned /\ ~result.model_applied
    /\ result.features["sentiment"] > 0
    /\ result.approval_prob = 1000000
    /\ \E s \in SentimentProbes :
          s > result.features["sentiment"]
          /\ ForecastWithSentiment(s).approval_prob = result.approval_prob
    /\ \E s \in SentimentProbes :
          s < result.features["sentiment"]
          /\ ForecastWithSentiment(s).approval_prob < result.approval_prob

(* ------------------- the benchmark's N_eff estimator ------------------ *)

\* the features a caller hands to _n_effective: sources in several letter
\* cases, sizes and counts of either sign, and values that are no numbers
BenchValues ==
    [primary_source    |-> {Name(""), Name("forum"), Name("FORUM"), Name("Forum"),
                            Name("news"), Name("News"), Name("chat"), Name("Chat"),
                            Name("onchain"), Name("governance"), Name("consolidated"),
                            Name("blog"), None},
     ctx_kb            |-> {Num(0), Num(2500), Num(400000), Num(-30000), Str(1), None},
     topics_n          |-> {Num(0), Num(3), Num(-2), Str(1)},
     snippets_n        |-> {Num(0), Num(4), Num(-2), List(1)},
     engagement_weight |-> {Num(0), Num(500), Num(1000), Num(-400), Num(-3000),
                            Str(1), None}]

BenchKeys == DOMAIN BenchValues

InitBench ==
    /\ context = <<>>
    /\ rates = [t |-> "raises"]
    /\ modelFile = Absent
    /\ pc = "build"
    /\ result = None
    /\ bench = [pc |-> "build",
                features |-> [primary_source |-> Name(""), ctx_kb |-> Num(0),
                              topics_n |-> Num(0), snippets_n |-> Num(0),
                              engagement_weight |-> Num(0)],
                out |-> None]
    /\ calibration = None
    /\ evaluation = None
    /\ LaterIdle

\* the caller sets one entry of the features mapping
SetFeature(k, v) ==
    /\ bench.pc = "build"
    /\ bench' = [bench EXCEPT !.features[k] = v]
    /\ UNCHANGED <<context, rates, modelFile, pc, result, calibration, evaluation, later>>

\* _n_effective(features)
Estimate ==
    /\ bench.pc = "build"
    /\ bench' = [bench EXCEPT !.pc = "done", !.out = NEffectiveCall(bench.features)]
    /\ UNCHANGED <<context, rates, modelFile, pc, result, calibration, evaluation, later>>

NextBench ==
    \/ \E k \in BenchKeys : \E v \in BenchValues[k] : SetFeature(k, v)
    \/ Estimate

SpecBench == InitBench /\ [][NextBench]_vars

\* the features of the finished call are all of the expected types
BenchNumeric ==
    /\ bench.features["primary_source"].t = "str"
    /\ \A k \in {"ctx_kb", "topics_n", "snippets_n", "engagement_weight"} :
          bench.features[k].t = "num"

\* the base count the specification gives a source, letter case ignored
BaseExpected(s) ==
    CASE s \in {"forum", "Forum", "FORUM"} -> 250
      [] s \in {"news", "News"}            -> 200
      [] s \in {"chat", "Chat"}            -> 120
      [] s = "onchain"                     -> 100
      [] s = "governance"                  -> 220
      [] s = "consolidated"                -> 300
      [] OTHER                             -> 150

\* C11: for numeric features _n_effective returns
\* clamp((base + 10 ctx_kb + 20 topics_n + 15 snippets_n)
\*       * (1 + 0.5 engagement_weight), 30, 5000),
\* the base looked up by the source without regard to letter case and 150
\* for an unknown source; the result lies in [30, 5000] also for negative
\* counts and a negative engagement weight (N in tenths here).
C11_NEffectiveFormula ==
    (bench # None /\ bench.pc = "done" /\ BenchNumeric) =>
        LET f == bench.features
            N == 10 * BaseExpected(f["primary_source"].s) + f["ctx_kb"].v \div 10
                 + 200 * f["topics_n"].v + 150 * f["snippets_n"].v
            scaled == (N * (2000 + f["engagement_weight"].v)) \div 2000
        IN  /\ ~bench.out.raised
            /\ bench.out.N = Clamp(scaled, 300, 50000)
            /\ bench.out.N >= 300
            /\ bench.out.N <= 50000

\* an upper-case source, a negative count and a negative weight, and a
\* result strictly inside the range
C11_Witness ==
    /\ bench # None
    /\ bench.pc = "done"
    /\ BenchNumeric
    /\ bench.features["primary_source"].s = "FORUM"
    /\ bench.features["topics_n"].v < 0
    /\ bench.features["engagement_weight"].v < 0
    /\ ~bench.out.raised
    /\ bench.out.N > 300
    /\ bench.out.N < 50000

\* some input of the estimate is not a number
BenchNonNumeric ==
    \E k \in {"ctx_kb", "topics_n", "snippets_n", "engagement_weight"} :
        bench.features[k].t # "num"

\* C12: when ctx_kb, topics_n, snippets_n or engagement_weight is not a
\* number, _n_effective raises nothing and returns the base count of the
\* source, clamped, and no partially computed sum.
C12_NonNumericGivesBase ==
    (/\ bench # None
     /\ bench.pc = "done"
     /\ bench.features["primary_source"].t = "str"
     /\ BenchNonNumeric) =>
        /\ ~bench.out.raised
        /\ bench.out.N = Clamp(10 * BaseN(bench.features["primary_source"].s), 300, 50000)

(* --------------------------- calibration ------------------------------ *)
(* Numbers of apply_calibration are binary floating point: an integer n   *)
(* stands for n / Grid, and every arithmetic operation rounds its exact   *)
(* result to FloatBits significant bits, ties to even (the code's floats  *)
(* have 53), or to the grid for results too small for that.               *)

\* significant bits of a float
FloatBits == 6

\* 1.0
Grid == 64 * 64

RECURSIVE BitLen(_)
BitLen(n) == IF n = 0 THEN 0 ELSE 1 + BitLen(n \div 2)

RECURSIVE Pow2(_)
Pow2(k) == IF k = 0 THEN 1 ELSE 2 * Pow2(k - 1)

\* n / d for n >= 0 and d > 0, rounded to nearest, ties to even
RoundMag(n, d) ==
    LET bits == BitLen(n \div d)
        step == IF bits > FloatBits THEN Pow2(bits - FloatBits) ELSE 1
        unit == d * step
        m    == n \div unit
        rem  == n - m * unit
        up   == 2 * rem > unit \/ (2 * rem = unit /\ m % 2 = 1)
    IN  (IF up THEN m + 1 ELSE m) * step

RoundQ(n, d) == IF n < 0 THEN -RoundMag(-n, d) ELSE RoundMag(n, d)

FAdd(a, b) == RoundQ(a + b, 1)
FSub(a, b) == RoundQ(a - b, 1)
FMul(a, b) == RoundQ(a * b, Grid)
FDiv(a, b) == IF b < 0 THEN RoundQ(-(a * Grid), -b) ELSE RoundQ(a * Grid, b)

\* a list with its elements: each element a sequence of Python values
Pairs(items) == [t |-> "list", n |-> Len(items), items |-> items]

\* _clamp01, without a clamp
Clamp01_None(x) == x

\* calibration.py lines 33-34
Clamp01(x) == IF x < 0 THEN 0 ELSE IF x > Grid THEN Grid ELSE x

\* the order of sorted() on tuples of floats
PairLeq(a, b) == a[1] < b[1] \/ (a[1] = b[1] /\ a[2] <= b[2])

RECURSIVE InsertPoint(_, _)
InsertPoint(pt, sorted) ==
    IF sorted = <<>> THEN <<pt>>
    ELSE IF PairLeq(pt, Head(sorted)) THEN <<pt>> \o sorted
    ELSE <<Head(sorted)>> \o InsertPoint(pt, Tail(sorted))

\* calibration.py line 40 without the sort
SortPoints_AsGiven(points) == points

\* calibration.py line 40: sorted(points)
RECURSIVE SortPoints(_)
SortPoints(points) ==
    IF points = <<>> THEN <<>>
    ELSE InsertPoint(Head(points), SortPoints(Tail(points)))

\* calibration.py lines 37-51
InterpPoints(points, x) ==
    IF points = <<>> THEN x
    ELSE
        LET pts == SortPoints(points)
            n   == Len(pts)
            brackets == {i \in 1..(n - 1) : pts[i][1] <= x /\ x <= pts[i + 1][1]}
        IN  IF x <= pts[1][1] THEN pts[1][2]
            ELSE IF x >= pts[n][1] THEN pts[n][2]
            ELSE IF brackets = {} THEN x
            ELSE
                LET i  == CHOOSE j \in brackets : \A k \in brackets : j <= k
                    x0 == pts[i][1]
                    y0 == pts[i][2]
                    x1 == pts[i + 1][1]
                    y1 == pts[i + 1][2]
                    t  == FDiv(FSub(x, x0), FSub(x1, x0))
                IN  IF x1 = x0 THEN y0
                    ELSE FAdd(y0, FMul(t, FSub(y1, y0)))

\* load_calibration that never finds a file
LoadCalibration_NoFile(file) == None

\* calibration.py lines 54-59: the parsed file, None when it cannot be read
LoadCalibration(file) == IF file.t = "json" THEN file.v ELSE None

\* calibration.py line 73: str(calib.get("type", "linear")).lower()
TypeOf(calib) ==
    LET v == GetOr(calib.d, "type", Name("linear"))
    IN  IF v.t = "str" /\ "s" \in DOMAIN v THEN Lower(v.s) ELSE "?"

\* calibration.py lines 86-87: the points are a list of numeric pairs
PointsConvert(pts) ==
    /\ pts.t = "list"
    /\ "items" \in DOMAIN pts
    /\ \A i \in 1..Len(pts.items) :
          /\ Len(pts.items[i]) = 2
          /\ ~FloatRaises(pts.items[i][1])
          /\ ~FloatRaises(pts.items[i][2])

\* the list of (float(a), float(b))
PointsOf(pts) == [i \in 1..Len(pts.items) |-> <<FloatOf(pts.items[i][1]), FloatOf(pts.items[i][2])>>]

\* calibration.py line 78: the key looked up in source_overrides
OverrideKey(source) ==
    IF source.t = "str" /\ "s" \in DOMAIN source THEN Lower(source.s) ELSE "?"

\* calibration.py lines 74-82: the linear mapping
ApplyLinear(p, source, calib) ==
    LET m0 == GetOr(calib.d, "m", Num(Grid))
        c0 == GetOr(calib.d, "c", Num(0))
        overrides == Get(calib.d, "source_overrides")
        ov == IF Truthy(source) /\ IsDict(overrides)
              THEN Get(overrides.d, OverrideKey(source))
              ELSE None
        m1 == IF IsDict(ov) THEN GetOr(ov.d, "m", m0) ELSE m0
        c1 == IF IsDict(ov) THEN GetOr(ov.d, "c", c0) ELSE c0
    IN  IF FloatRaises(m0) \/ FloatRaises(c0) \/ FloatRaises(m1) \/ FloatRaises(c1)
        THEN Raised
        ELSE [raised |-> FALSE,
              value  |-> Clamp01(FAdd(FMul(FloatOf(m1), p), FloatOf(c1)))]

\* calibration.py lines 84-90: the piecewise-linear mapping
ApplyPoints(p, calib) ==
    LET pts == Or(Get(calib.d, "points"), Pairs(<<>>))
    IN  IF ~PointsConvert(pts) THEN [raised |-> FALSE, value |-> p]
        ELSE [raised |-> FALSE, value |-> Clamp01(InterpPoints(PointsOf(pts), p))]

\* calibration.py lines 62-92: apply_calibration(p, source, calib) with the
\* calibration file as it is on disk
ApplyCalibration(p, source, calib, file) ==
    LET config == Or(calib, LoadCalibration(file))
    IN  IF ~Truthy(config) THEN [raised |-> FALSE, value |-> p]
        ELSE IF ~IsDict(config) THEN Raised
        ELSE IF TypeOf(config) = "linear" THEN ApplyLinear(p, source, config)
        ELSE IF TypeOf(config) = "points" THEN ApplyPoints(p, config)
        ELSE [raised |-> FALSE, value |-> p]

\* the probabilities tried, in units of 1/Grid: -0.25 to 1.25
PValues == {-1024, 0, 512, 1024, 1536, 2048, 3072, 4096, 5120}

\* the sources tried: none, the empty string, names in several letter cases
SourceValues == {None, Str(0), Name("forum"), Name("FORUM"), Name("Forum"), Name("chat")}

\* linear configs: the identity, defaults, overrides keyed in lower case and
\* keyed "Forum", and malformed fields
LinearConfigs ==
    { Dict([type |-> Name("linear"), m |-> Num(4096), c |-> Num(0)]),
      Dict([type |-> Name("LINEAR")]),
      Dict([m |-> Num(2048), c |-> Num(1024)]),
      Dict([type |-> Name("linear"), m |-> Num(4352), c |-> Num(-128),
            source_overrides |-> Dict([forum |-> Dict([m |-> Num(2048), c |-> Num(1024)]),
                                       chat  |-> Dict([c |-> Num(2048)])])]),
      Dict([type |-> Name("linear"),
            source_overrides |-> Dict([Forum |-> Dict([m |-> Num(2048), c |-> Num(1024)])])]),
      Dict([type |-> Name("linear"), m |-> Str(1)]),
      Dict([type |-> Name("linear"), c |-> None]),
      Dict([type |-> Name("linear"),
            source_overrides |-> Dict([forum |-> Dict([m |-> Str(1)])])]),
      Dict([type |-> Name("linear"), source_overrides |-> List(1)]),
      Dict([type |-> Name("linear"), source_overrides |-> Dict([forum |-> Num(2048)])]) }

\* control points (x, y) as lists of two numbers
Pt(x, y) == <<Num(x), Num(y)>>

\* points configs: sorted and unsorted, the second interpolation inexact at
\* its middle point, y outside [0, 1], one x twice (first, interior, last,
\* only), and malformed points
PointsConfigs ==
    { Dict([type |-> Name("points"),
            points |-> Pairs(<<Pt(0, 64), Pt(2048, 2048), Pt(4096, 4032)>>)]),
      Dict([type |-> Name("Points"),
            points |-> Pairs(<<Pt(4096, 2048), Pt(0, 4032), Pt(2048, 132)>>)]),
      Dict([type |-> Name("points"),
            points |-> Pairs(<<Pt(3072, 5120), Pt(1024, -1024)>>)]),
      Dict([type |-> Name("points"),
            points |-> Pairs(<<Pt(0, 1024), Pt(0, 512), Pt(4096, 4096)>>)]),
      Dict([type |-> Name("points"),
            points |-> Pairs(<<Pt(0, 0), Pt(2048, 3072), Pt(2048, 1024), Pt(4096, 4096)>>)]),
      Dict([type |-> Name("points"),
            points |-> Pairs(<<Pt(0, 0), Pt(4096, 2048), Pt(4096, 3584)>>)]),
      Dict([type |-> Name("points"),
            points |-> Pairs(<<Pt(2048, 3072), Pt(2048, 1024)>>)]),
      Dict([type |-> Name("points")]),
      Dict([type |-> Name("points"), points |-> Num(5)]),
      Dict([type |-> Name("points"), points |-> List(2)]),
      Dict([type |-> Name("points"), points |-> Pairs(<<Pt(0, 0), <<Num(4096)>>>>)]),
      Dict([type |-> Name("points"), points |-> Pairs(<<Pt(0, 0), <<Num(4096), Str(1)>>>>)]) }

\* configs of no known type, and a config that is no mapping
OtherConfigs ==
    { None, EmptyDict, Dict([type |-> Name("spline"), m |-> Num(2048)]),
      Dict([type |-> Num(4096)]), Dict([type |-> None, m |-> Str(1)]), List(1) }

ConfigChoices == LinearConfigs \cup PointsConfigs \cup OtherConfigs

\* the calibration file: missing, unreadable, null, empty, a linear and a
\* points config, a list
CalibFileChoices ==
    { Absent, Corrupt, Json(None), Json(EmptyDict),
      Json(Dict([type |-> Name("linear"), m |-> Num(2048), c |-> Num(1024)])),
      Json(Dict([type |-> Name("points"),
                 points |-> Pairs(<<Pt(0, 64), Pt(2048, 2048), Pt(4096, 4032)>>)])),
      Json(List(1)) }

InitCalibration ==
    /\ context = <<>>
    /\ rates = [t |-> "raises"]
    /\ modelFile = Absent
    /\ pc = "build"
    /\ result = None
    /\ bench = None
    /\ calibration = [pc |-> "build", p |-> 0, source |-> None, calib |-> None,
                      file |-> Absent, out |-> None]
    /\ evaluation = None
    /\ LaterIdle

CalibrationFrame == UNCHANGED <<context, rates, modelFile, pc, result, bench, evaluation, later>>

\* the caller chooses the arguments of the call
SetP(p) ==
    /\ calibration.pc = "build"
    /\ calibration' = [calibration EXCEPT !.p = p]
    /\ CalibrationFrame

SetSource(source) ==
    /\ calibration.pc = "build"
    /\ calibration' = [calibration EXCEPT !.source = source]
    /\ CalibrationFrame

SetCalib(calib) ==
    /\ calibration.pc = "build"
    /\ calibration' = [calibration EXCEPT !.calib = calib]
    /\ CalibrationFrame

\* models/referendum_calibration.json is written, removed or damaged
WriteCalibrationFile(file) ==
    /\ calibration.pc = "build"
    /\ calibration' = [calibration EXCEPT !.file = file]
    /\ CalibrationFrame

\* apply_calibration(p, source, calib)
Apply ==
    /\ calibration.pc = "build"
    /\ calibration' = [calibration EXCEPT
                          !.pc = "done",
                          !.out = ApplyCalibration(calibration.p, calibration.source,
                                                   calibration.calib, calibration.file)]
    /\ CalibrationFrame

NextCalibration ==
    \/ \E p \in PValues : SetP(p)
    \/ \E source \in SourceValues : SetSource(source)
    \/ \E calib \in ConfigChoices : SetCalib(calib)
    \/ \E file \in CalibFileChoices : WriteCalibrationFile(file)
    \/ Apply

SpecCalibration == InitCalibration /\ [][NextCalibration]_vars

\* the call is finished
Applied == calibration # None /\ calibration.pc = "done"

IdentityConfig == Dict([type |-> Name("linear"), m |-> Num(Grid), c |-> Num(0)])

\* C13: apply_calibration(p, source, {type: linear, m: 1.0, c: 0.0}) is
\* clamp(p, 0, 1) for every p, also outside [0, 1], and every source.
C13_IdentityCalibration ==
    (Applied /\ calibration.calib = IdentityConfig) =>
        /\ ~calibration.out.raised
        /\ calibration.out.value = Clamp(calibration.p, 0, Grid)

\* the identity config, a source, and a p above 1 that is clamped
C13_Witness ==
    /\ Applied
    /\ calibration.calib = IdentityConfig
    /\ Truthy(calibration.source)
    /\ calibration.p > Grid
    /\ ~calibration.out.raised
    /\ calibration.out.value = Grid

\* the call was made with no config: None or an empty mapping
NoConfig == calibration.calib \in {None, EmptyDict}

NumericMC(d) ==
    /\ ~FloatRaises(GetOr(d, "m", Num(Grid)))
    /\ ~FloatRaises(GetOr(d, "c", Num(0)))

\* a linear config whose m and c, and those of its overrides, are numbers
WellFormedLinear(calib) ==
    /\ IsDict(calib)
    /\ Truthy(calib)
    /\ TypeOf(calib) = "linear"
    /\ NumericMC(calib.d)
    /\ LET ovs == Get(calib.d, "source_overrides")
       IN  ovs.t # "none" =>
               /\ IsDict(ovs)
               /\ \A k \in DOMAIN ovs.d : IsDict(ovs.d[k]) /\ NumericMC(ovs.d[k].d)

\* the overrides of a config whose key is the source, letter case ignored
\* on both sides
MatchingOverrides(calib, source) ==
    LET ovs == Get(calib.d, "source_overrides")
    IN  IF ovs.t = "none" \/ ~Truthy(source) THEN {}
        ELSE {ovs.d[k] : k \in {j \in DOMAIN ovs.d : Lower(j) = OverrideKey(source)}}

\* C15: a linear config gives clamp(m p + c, 0, 1) with m and c from the
\* source_overrides entry whose key equals the source without regard to
\* letter case on either side (an entry keyed "Forum" applies to the
\* sources "forum" and "FORUM"), each falling back to the top-level m and
\* c, which default to 1.0 and 0.0.
C15_OverrideIgnoresCase ==
    (Applied /\ WellFormedLinear(calibration.calib)) =>
        LET d  == calibration.calib.d
            m0 == FloatOf(GetOr(d, "m", Num(Grid)))
            c0 == FloatOf(GetOr(d, "c", Num(0)))
            matches == MatchingOverrides(calibration.calib, calibration.source)
            m == IF matches = {} THEN m0
                 ELSE FloatOf(GetOr((CHOOSE ov \in matches : TRUE).d, "m", Num(m0)))
            c == IF matches = {} THEN c0
                 ELSE FloatOf(GetOr((CHOOSE ov \in matches : TRUE).d, "c", Num(c0)))
        IN  /\ ~calibration.out.raised
            /\ calibration.out.value = Clamp(FAdd(FMul(m, calibration.p), c), 0, Grid)

\* a points config whose points are a non-empty list of numeric pairs
WellFormedPoints(calib) ==
    /\ IsDict(calib)
    /\ TypeOf(calib) = "points"
    /\ Truthy(Get(calib.d, "points"))
    /\ PointsConvert(calib.d["points"])

\* the control points of the finished call, as a set of (x, y)
ControlPoints ==
    LET pts == PointsOf(calibration.calib.d["points"])
    IN  {pts[i] : i \in DOMAIN pts}

\* no two control points share an x
DistinctX == \A a, b \in ControlPoints : a[1] = b[1] => a = b

\* the control point with the largest x below v, and with the smallest x
\* above v
PointBelow(v) ==
    CHOOSE a \in ControlPoints :
        a[1] < v /\ \A b \in ControlPoints : b[1] < v => b[1] <= a[1]

PointAbove(v) ==
    CHOOSE a \in ControlPoints :
        a[1] > v /\ \A b \in ControlPoints : b[1] > v => b[1] >= a[1]

\* the value of the specification outside the interior control points:
\* the end point's y at or beyond an end, the interpolation in between
PointsExpected(v) ==
    LET lowest  == CHOOSE a \in ControlPoints : \A b \in ControlPoints : a[1] <= b[1]
        highest == CHOOSE a \in ControlPoints : \A b \in ControlPoints : a[1] >= b[1]
        lo == PointBelow(v)
        hi == PointAbove(v)
    IN  IF v <= lowest[1] THEN lowest[2]
        ELSE IF v >= highest[1] THEN highest[2]
        ELSE FAdd(lo[2], FMul(FDiv(FSub(v, lo[1]), FSub(hi[1], lo[1])),
                              FSub(hi[2], lo[2])))

\* p is the x of a control point that is neither the first nor the last
AtInteriorPoint ==
    /\ \E a \in ControlPoints : a[1] = calibration.p
    /\ \E a \in ControlPoints : a[1] < calibration.p
    /\ \E a \in ControlPoints : a[1] > calibration.p

\* C16 as stated: for control points in any order apply_calibration returns
\* the y of the smallest-x point at or below it, the y of the largest-x
\* point at or above it, the interpolation between the bracketing points
\* otherwise, clamped to [0, 1]; at the x of every control point it
\* returns that point's y exactly.
C16_ControlPointsExact ==
    (Applied /\ WellFormedPoints(calibration.calib) /\ DistinctX) =>
        /\ ~calibration.out.raised
        /\ calibration.out.value =
               IF AtInteriorPoint
               THEN Clamp((CHOOSE a \in ControlPoints : a[1] = calibration.p)[2], 0, Grid)
               ELSE Clamp(PointsExpected(calibration.p), 0, Grid)

\* C16: as above, but at the x of an interior control point (x, y) the
\* result is y up to floating-point rounding: fl(y0 + fl(y - y0)) for the
\* preceding point's y0, clamped; it is y exactly when y - y0 is
\* representable, and apart from y by no more than the rounding of the two
\* operations, 2^-FloatBits (2 |y| + 2 |y0|) and one unit of the grid.
C16_ControlPointsUpToRounding ==
    (Applied /\ WellFormedPoints(calibration.calib) /\ DistinctX) =>
        /\ ~calibration.out.raised
        /\ IF AtInteriorPoint
           THEN LET y  == (CHOOSE a \in ControlPoints : a[1] = calibration.p)[2]
                    y0 == PointBelow(calibration.p)[2]
                IN  /\ calibration.out.value = Clamp(FAdd(y0, FSub(y, y0)), 0, Grid)
                    /\ FSub(y, y0) = y - y0 => calibration.out.value = Clamp(y, 0, Grid)
                    /\ Abs(calibration.out.value - Clamp(y, 0, Grid)) * Pow2(FloatBits)
                           <= 2 * (Abs(y) + Abs(y0)) + Pow2(FloatBits)
           ELSE calibration.out.value = Clamp(PointsExpected(calibration.p), 0, Grid)

\* control points out of order and p at the interior one, where the result
\* is not its y
C16_Witness ==
    /\ Applied
    /\ WellFormedPoints(calibration.calib)
    /\ DistinctX
    /\ AtInteriorPoint
    /\ PointsOf(calibration.calib.d["points"]) # SortPoints(PointsOf(calibration.calib.d["points"]))
    /\ ~calibration.out.raised
    /\ calibration.out.value # (CHOOSE a \in ControlPoints : a[1] = calibration.p)[2]

\* two control points share the x that p is at
AtDuplicatedX ==
    \E a, b \in ControlPoints : a # b /\ a[1] = calibration.p /\ b[1] = calibration.p

\* C17: when two control points share an x, apply_calibration at that x
\* returns the y of the lower point, the first of the two in sorted order,
\* and divides by nothing that is zero, at the first x, at an interior x
\* and at the last x.
C17_LowerPointWins ==
    (Applied /\ WellFormedPoints(calibration.calib) /\ AtDuplicatedX) =>
        LET ys == {a[2] : a \in {b \in ControlPoints : b[1] = calibration.p}}
            lower == CHOOSE y \in ys : \A z \in ys : y <= z
        IN  /\ ~calibration.out.raised
            /\ calibration.out.value = Clamp(lower, 0, Grid)

\* C18: apply_calibration raises for no config: one of unknown type gives
\* p unchanged, and one of a known type with malformed fields (m or c not
\* a number, an override with such m or c, points that are no numeric
\* pairs) gives a value too.
C18_NeverRaises ==
    Applied =>
        /\ ~calibration.out.raised
        /\ (/\ IsDict(calibration.calib)
            /\ Truthy(calibration.calib)
            /\ TypeOf(calibration.calib) \notin {"linear", "points"})
               => calibration.out.value = calibration.p

(* ----------------------- prediction evaluation ------------------------ *)
(* A table is its set of columns and its sequence of rows; a row has a    *)
(* field for every column the tables can have, and the field of a column  *)
(* the table lacks is not read.  A null actual is None; a missing dao     *)
(* cell is None or NaN, which _canon tells apart.                          *)

\* each table passed to compare_predictions has at most this many rows
MaxRows == 2

Table(cols, rows) == [cols |-> cols, rows |-> rows]

PredColumns == {"proposal_id", "dao", "predicted"}
ActualColumns == {"proposal_id", "dao", "actual"}

\* DataFrame.empty
IsEmpty(table) == table.cols = {} \/ table.rows = <<>>

\* the float nan of a missing cell
NaN == [t |-> "nan"]

\* DataFrame.isna of a cell
IsNull(v) == v.t \in {"none", "nan"}

\* prediction_evaluator.py lines 58-60: _canon of a cell; nan is truthy and
\* str(nan) is "nan"
Canon(v) ==
    IF v.t = "nan" THEN "nan"
    ELSE IF ~Truthy(v) THEN "gov"
    ELSE CASE v.s = "DOT Gov" -> "dotgov"
           [] v.s = "Dot gov" -> "dotgov"
           [] v.s = "Gov"     -> "gov"
           [] OTHER           -> v.s

\* the join key of a row at a level: (proposal_id, dao), (proposal_id,
\* dao_key), (proposal_id); merge matches the null keys of both sides with
\* each other
KeyOf(level, row) ==
    CASE level = 1 -> <<row.proposal_id, IF IsNull(row.dao) THEN None ELSE row.dao>>
      [] level = 2 -> <<row.proposal_id, Canon(row.dao)>>
      [] level = 3 -> <<row.proposal_id>>

\* the rows a left merge gives one prediction: one per matching actual, in
\* the actuals' order, or one with a null actual
MergedRows(level, p, actualRows) ==
    LET matching == SelectSeq(actualRows, LAMBDA a : KeyOf(level, a) = KeyOf(level, p))
    IN  IF matching = <<>>
        THEN <<[proposal_id |-> p.proposal_id, dao |-> p.dao,
                predicted |-> p.predicted, actual |-> None]>>
        ELSE [i \in 1..Len(matching) |->
                 [proposal_id |-> p.proposal_id, dao |-> p.dao,
                  predicted |-> p.predicted, actual |-> matching[i].actual]]

\* DataFrame.merge(how="left") on the key of a level
RECURSIVE LeftMerge(_, _, _)
LeftMerge(level, predRows, actualRows) ==
    IF predRows = <<>> THEN <<>>
    ELSE MergedRows(level, Head(predRows), actualRows)
         \o LeftMerge(level, Tail(predRows), actualRows)

\* isna().any() in the place of isna().all()
AnyNull(rows) == \E i \in 1..Len(rows) : rows[i].actual = None

\* merged["actual"].isna().all()
AllNull(rows) == \A i \in 1..Len(rows) : rows[i].actual = None

\* prediction_evaluator.py lines 21-125: compare_predictions(df_predictions,
\* df_actual) when load_governance_data returns sheet.  The selections of
\* lines 62-66 raise KeyError for a table without proposal_id, dao or
\* actual; a missing predicted column is filled with nulls (lines 90-100).
ComparePredictions(pred, df_actual, sheet) ==
    LET actual == IF IsEmpty(df_actual) THEN sheet ELSE df_actual
        m1 == LeftMerge(1, pred.rows, actual.rows)
        m2 == IF AllNull(m1) THEN LeftMerge(2, pred.rows, actual.rows) ELSE m1
        m3 == IF AllNull(m2) THEN LeftMerge(3, pred.rows, actual.rows) ELSE m2
    IN  IF IsEmpty(pred) \/ IsEmpty(actual) THEN [raised |-> FALSE, rows |-> <<>>]
        ELSE IF \/ ~({"proposal_id", "dao"} \subseteq pred.cols)
                \/ ~({"proposal_id", "dao", "actual"} \subseteq actual.cols)
        THEN Raised
        ELSE [raised |-> FALSE,
              rows |-> [i \in 1..Len(m3) |->
                          IF "predicted" \in pred.cols THEN m3[i]
                          ELSE [m3[i] EXCEPT !.predicted = None]]]

\* the rows tried for the predictions and for the actuals
PredRowChoices ==
    {[proposal_id |-> c[1], dao |-> c[2], predicted |-> Name("Approved")] :
        c \in {<<1, Name("DOT Gov")>>, <<1, Name("Gov")>>, <<2, Name("Gov")>>,
               <<2, None>>, <<2, NaN>>, <<2, Str(0)>>}}

ActualRowChoices ==
    {[proposal_id |-> c[1], dao |-> c[2], actual |-> c[3]] :
        c \in {<<1, Name("DOT Gov"), Name("Approved")>>,
               <<1, Name("Dot gov"), Name("Rejected")>>,
               <<1, Name("Gov"), None>>,
               <<2, Name("Gov"), Name("Rejected")>>,
               <<2, Name("Dot gov"), Name("Approved")>>,
               <<2, NaN, Name("Approved")>>,
               <<2, None, Name("Rejected")>>}}

\* what load_governance_data("Referenda") returns: no rows, or a sheet with
\* outcomes
SheetChoices ==
    { Table({}, <<>>),
      Table(ActualColumns,
            <<[proposal_id |-> 1, dao |-> Name("DOT Gov"), actual |-> Name("Approved")]>>) }

InitEvaluation ==
    /\ context = <<>>
    /\ rates = [t |-> "raises"]
    /\ modelFile = Absent
    /\ pc = "build"
    /\ result = None
    /\ bench = None
    /\ calibration = None
    /\ evaluation = [pc |-> "build", pred |-> Table(PredColumns, <<>>),
                     actual |-> Table(ActualColumns, <<>>), out |-> None]
    /\ LaterIdle

EvaluationFrame == UNCHANGED <<context, rates, modelFile, pc, result, bench, calibration, later>>

\* the caller appends a row to the predictions
AddPrediction(row) ==
    /\ evaluation.pc = "build"
    /\ Len(evaluation.pred.rows) < MaxRows
    /\ evaluation' = [evaluation EXCEPT !.pred.rows = Append(@, row)]
    /\ EvaluationFrame

\* the caller appends a row to the actuals
AddActual(row) ==
    /\ evaluation.pc = "build"
    /\ Len(evaluation.actual.rows) < MaxRows
    /\ evaluation' = [evaluation EXCEPT !.actual.rows = Append(@, row)]
    /\ EvaluationFrame

\* the predictions come without their dao or their predicted column
DropPredictionColumn(col) ==
    /\ evaluation.pc = "build"
    /\ evaluation.pred.cols = PredColumns
    /\ evaluation' = [evaluation EXCEPT !.pred.cols = @ \ {col}]
    /\ EvaluationFrame

\* the actuals come without their dao or their actual column
DropActualColumn(col) ==
    /\ evaluation.pc = "build"
    /\ evaluation.actual.cols = ActualColumns
    /\ evaluation' = [evaluation EXCEPT !.actual.cols = @ \ {col}]
    /\ EvaluationFrame

\* compare_predictions(df_predictions, df_actual)
Compare(sheet) ==
    /\ evaluation.pc = "build"
    /\ evaluation' = [evaluation EXCEPT
                         !.pc = "done",
                         !.out = ComparePredictions(evaluation.pred, evaluation.actual, sheet)]
    /\ EvaluationFrame

NextEvaluation ==
    \/ \E row \in PredRowChoices : AddPrediction(row)
    \/ \E row \in ActualRowChoices : AddActual(row)
    \/ \E col \in {"dao", "predicted"} : DropPredictionColumn(col)
    \/ \E col \in {"dao", "actual"} : DropActualColumn(col)
    \/ \E sheet \in SheetChoices : Compare(sheet)

SpecEvaluation == InitEvaluation /\ [][NextEvaluation]_vars

\* the call is finished
Compared == evaluation # None /\ evaluation.pc = "done"

\* both tables of the finished call have their expected columns
FullColumns ==
    /\ evaluation.pred.cols = PredColumns
    /\ evaluation.actual.cols = ActualColumns

\* C19: compare_predictions returns exactly one row per row of the
\* predictions, in their order, for every actuals table: unmatched
\* predictions have a null Actual, several actuals with one join key still
\* give one row, and with an empty actuals table every prediction still
\* gives a row.
C19_OneRowPerPrediction ==
    (Compared /\ FullColumns) =>
        /\ ~evaluation.out.raised
        /\ Len(evaluation.out.rows) = Len(evaluation.pred.rows)
        /\ \A i \in 1..Len(evaluation.pred.rows) :
              /\ evaluation.out.rows[i].proposal_id = evaluation.pred.rows[i].proposal_id
              /\ evaluation.out.rows[i].dao = evaluation.pred.rows[i].dao
              /\ evaluation.out.rows[i].predicted = evaluation.pred.rows[i].predicted

\* some prediction and some actual have the same key at the level, and the
\* actual is not null
Yields(level) ==
    \E i \in 1..Len(evaluation.pred.rows) : \E j \in 1..Len(evaluation.actual.rows) :
        /\ KeyOf(level, evaluation.pred.rows[i]) = KeyOf(level, evaluation.actual.rows[j])
        /\ evaluation.actual.rows[j].actual # None

\* the first level at which a prediction gets a non-null actual, the last
\* level when there is none
FirstLevel == IF Yields(1) THEN 1 ELSE IF Yields(2) THEN 2 ELSE 3

\* the actuals were passed by the caller, and both tables have rows
JoinedOwnActuals ==
    /\ Compared
    /\ FullColumns
    /\ ~IsEmpty(evaluation.pred)
    /\ ~IsEmpty(evaluation.actual)

CanonExpected(v) ==
    IF IsNull(v) THEN "gov"
    ELSE IF v.w = 0 THEN "gov"
    ELSE CASE v.s \in {"DOT Gov", "Dot gov"} -> "dotgov"
           [] v.s = "Gov"                   -> "gov"
           [] OTHER                         -> v.s

\* C21: when the exact join leaves every actual null, a prediction and an
\* actual with the same proposal_id whose dao values are equal after
\* lower-casing and removing whitespace, an empty or missing dao on either
\* side counting as "gov", match at level 2: the prediction's row carries
\* that actual ("DOT Gov" matches "Dot gov", a missing dao matches "Gov").
C21_CanonicalDaoMatch ==
    (JoinedOwnActuals /\ ~Yields(1)) =>
        \A i \in 1..Len(evaluation.pred.rows) : \A j \in 1..Len(evaluation.actual.rows) :
            LET p == evaluation.pred.rows[i]
                a == evaluation.actual.rows[j]
            IN  (/\ p.proposal_id = a.proposal_id
                 /\ CanonExpected(p.dao) = CanonExpected(a.dao)
                 /\ a.actual # None) =>
                    /\ ~evaluation.out.raised
                    /\ \E k \in 1..Len(evaluation.out.rows) :
                          /\ evaluation.out.rows[k].proposal_id = p.proposal_id
                          /\ evaluation.out.rows[k].dao = p.dao
                          /\ evaluation.out.rows[k].actual = a.actual

\* C22: compare_predictions raises nothing when dao or predicted is
\* missing from the predictions or dao or actual from the actuals: the
\* missing column is null in every row and there is one row per prediction.
C22_MissingColumnsSynthesized ==
    (/\ Compared
     /\ ~IsEmpty(evaluation.pred)
     /\ ~IsEmpty(evaluation.actual)
     /\ ~FullColumns) =>
        /\ ~evaluation.out.raised
        /\ Len(evaluation.out.rows) = Len(evaluation.pred.rows)
        /\ \A k \in 1..Len(evaluation.out.rows) :
              /\ "dao" \notin evaluation.pred.cols => evaluation.out.rows[k].dao = None
              /\ "predicted" \notin evaluation.pred.cols
                    => evaluation.out.rows[k].predicted = None
              /\ "actual" \notin evaluation.actual.cols
                    => evaluation.out.rows[k].actual = None

(* ------------------------------ training ------------------------------ *)

\* rows of the historical dataset
MaxHist == 2

\* train_model line 100
ZeroModel == Dict([intercept |-> Num(0), coefficients |-> EmptyDict])

\* Series.astype(float): ValueError on a cell holding a string that is not a
\* number; None and nan cells become nan
AstypeFloatRaises(df, col) == \E i \in 1..Len(df) : df[i][col].t = "str"

\* line 36: 1.0 for a Status that is "executed" in any case
Target(row) == IF row.Status.s \in {"Executed", "executed"} THEN 1 ELSE 0

\* analysis/train_forecaster.py _prepare_features: the target y, or the
\* ValueError of lines 46 and 57
PrepareFeatures(df) ==
    IF AstypeFloatRaises(df, "Voted_percentage") \/ AstypeFloatRaises(df, "sentiment_score")
    THEN Raised
    ELSE [raised |-> FALSE, y |-> [i \in 1..Len(df) |-> Target(df[i])]]

\* train_model: fit is the least-squares solution of line 108, whose
\* arithmetic is not computed here
TrainModel(df, fit) ==
    LET prep == PrepareFeatures(df)
    IN  IF prep.raised THEN Raised
        ELSE IF Len(prep.y) = 0 THEN [raised |-> FALSE, v |-> ZeroModel]
        ELSE [raised |-> FALSE, v |-> fit]

\* train_and_save: the returned value and the model file afterwards
TrainAndSaveCall(df, file, fit) ==
    LET model == TrainModel(df, fit)
    IN  IF model.raised THEN [out |-> Raised, file |-> file]
        ELSE [out |-> model, file |-> Json(model.v)]

\* scripts/train_forecaster.py _prepare_features: the ValueError of line 28
ScriptPrepareRaises(df) == AstypeFloatRaises(df, "Voted_percentage")

\* scripts/train_forecaster.py main: sklearn is whether scikit-learn could
\* be imported, fit the fitted model or Raised when LogisticRegression.fit
\* raises
MainCall(df, file, sklearn, fit) ==
    IF df = <<>> THEN [out |-> [raised |-> FALSE, v |-> None], file |-> file]
    ELSE IF ScriptPrepareRaises(df) THEN [out |-> Raised, file |-> file]
    ELSE IF ~sklearn THEN [out |-> [raised |-> FALSE, v |-> None], file |-> file]
    ELSE IF fit = Raised THEN [out |-> Raised, file |-> file]
    ELSE [out |-> [raised |-> FALSE, v |-> None], file |-> Json(fit)]

HistRowChoices ==
    { [Status |-> st, sentiment_score |-> se, Voted_percentage |-> vp] :
        st \in {Name("Executed"), Name("Rejected")},
        se \in {Num(500), NaN, Name("n/a")},
        vp \in {Num(40), Name("n/a")} }

FittedChoices ==
    { Dict([intercept |-> Num(-1300),
            coefficients |-> Dict([approval_rate |-> Num(0), turnout |-> Num(2000),
                                   sentiment |-> Num(700)])]),
      Dict([intercept |-> Num(400),
            coefficients |-> Dict([turnout |-> Num(-300)])]) }

StoredModelChoices == {Absent, Corrupt} \cup {Json(m) : m \in FittedChoices}

InitTraining ==
    /\ context = <<>>
    /\ rates = [t |-> "raises"]
    /\ modelFile = Absent
    /\ pc = "build"
    /\ result = None
    /\ bench = None
    /\ calibration = None
    /\ evaluation = None
    /\ training = [pc |-> "build", df |-> <<>>, file |-> Absent, op |-> "", out |-> None]
    /\ referenda = None
    /\ governor = None
    /\ mainrun = None
    /\ race = None

TrainingFrame ==
    UNCHANGED <<context, rates, modelFile, pc, result, bench, calibration, evaluation,
                referenda, governor, mainrun, race>>

\* one more referendum in the Referenda sheet
AddHistRow(row) ==
    /\ training.pc = "build"
    /\ Len(training.df) < MaxHist
    /\ training' = [training EXCEPT !.df = Append(@, row)]
    /\ TrainingFrame

\* the model file left by an earlier run
StoreModel(f) ==
    /\ training.pc = "build"
    /\ training' = [training EXCEPT !.file = f]
    /\ TrainingFrame

\* train_and_save()
TrainAndSave(fit) ==
    /\ training.pc = "build"
    /\ LET r == TrainAndSaveCall(training.df, training.file, fit)
       IN  training' = [training EXCEPT !.pc = "done", !.op = "train_and_save",
                                        !.out = r.out, !.file = r.file]
    /\ TrainingFrame

\* python scripts/train_forecaster.py
Main(sklearn, fit) ==
    /\ training.pc = "build"
    /\ LET r == MainCall(training.df, training.file, sklearn, fit)
       IN  training' = [training EXCEPT !.pc = "done", !.op = "main",
                                        !.out = r.out, !.file = r.file]
    /\ TrainingFrame

NextTraining ==
    \/ \E row \in HistRowChoices : AddHistRow(row)
    \/ \E f \in StoredModelChoices : StoreModel(f)
    \/ \E fit \in FittedChoices : TrainAndSave(fit)
    \/ \E sklearn \in BOOLEAN : \E fit \in FittedChoices \cup {Raised} : Main(sklearn, fit)

SpecTraining == InitTraining /\ [][NextTraining]_vars

Trained == training # None /\ training.pc = "done"

\* C23: training on a dataset with zero rows returns the zero model, and
\* either training entrypoint run on such a dataset leaves the zero model in
\* the model file, raising nothing.
C23_EmptyDatasetWritesZeroModel ==
    (Trained /\ training.df = <<>>) =>
        /\ ~training.out.raised
        /\ training.op = "train_and_save" => training.out.v = ZeroModel
        /\ training.file = Json(ZeroModel)

\* some cell of a feature column is a string that is not a number
NonNumericColumn(df) ==
    \E i \in 1..Len(df) : \E col \in {"sentiment_score", "Voted_percentage"} :
        df[i][col].t = "str"

\* C24: when a feature column of the dataset cannot be coerced to numbers,
\* train_and_save raises nothing and leaves the zero model in the model
\* file.
C24_UncoercibleWritesDefault ==
    (Trained /\ training.op = "train_and_save" /\ NonNumericColumn(training.df)) =>
        /\ ~training.out.raised
        /\ training.file = Json(ZeroModel)

(* ------------------------- the forecast's frame ------------------------ *)

MaxNew == 3
MaxGaps == 2

\* a row of the Referenda sheet: its Referendum_ID and the columns that
\* hold a placeholder ("/" or 0) in the place of a value
Row(id, missing) == [id |-> id, missing |-> missing]

\* line 247
KeyMissing == {"Start", "End", "Status"}

\* a row whose Start, End and Status are placeholders
IsGapRow(row) == KeyMissing \subseteq row.missing

\* last_stored_id, lines 223-228: the last numeric ID of the first column
LastStoredId(stored) ==
    IF stored = Absent THEN -1
    ELSE IF stored.rows = <<>> THEN -1
    ELSE stored.rows[Len(stored.rows)].id

\* what collect_referendum(idx) does: returns a row, raises
\* IncompleteDataError(row, missing), raises RuntimeError("gap (true 404)"),
\* raises anything else
Collected == [t |-> "row"]
Incomplete(missing) == [t |-> "incomplete", missing |-> missing]
Gap404 == [t |-> "gap"]
Unexpected == [t |-> "error"]

CollectChoices ==
    {Collected, Gap404, Unexpected}
        \cup {Incomplete(m) : m \in {KeyMissing, KeyMissing \cup {"Title"},
                                     {"Title"}, {"Start", "End"}}}

\* imputed incomplete rows reset the streak as gaps do not: mutant
GapStreakAfter_NoReset(gap_streak, outcome) ==
    IF outcome.t = "row" THEN 0 ELSE gap_streak + 1

\* lines 240-288: the gap streak after an attempt with this outcome
GapStreakAfter(gap_streak, outcome) ==
    CASE outcome.t = "row" -> 0
      [] outcome.t = "incomplete" ->
            IF KeyMissing \subseteq outcome.missing THEN gap_streak + 1 ELSE 0
      [] outcome.t = "gap" -> gap_streak + 1
      [] outcome.t = "error" -> gap_streak + 1

\* lines 242 and 245: the frame after the attempt
DfAfter(df, next_id, outcome) ==
    CASE outcome.t = "row" -> Append(df, Row(next_id, {}))
      [] outcome.t = "incomplete" -> Append(df, Row(next_id, outcome.missing))
      [] OTHER -> df

\* line 238
LoopRuns(r) == r.attempted < r.max_new /\ r.gap_streak < r.max_gaps

StoredChoices ==
    { Absent,
      [rows |-> <<>>],
      [rows |-> <<Row(1, {})>>],
      [rows |-> <<Row(1, {}), Row(2, KeyMissing), Row(3, KeyMissing)>>],
      [rows |-> <<Row(1, {}), Row(2, KeyMissing), Row(3, {"Title"})>>],
      [rows |-> <<Row(0, KeyMissing)>>] }

InitReferenda ==
    /\ context = <<>>
    /\ rates = [t |-> "raises"]
    /\ modelFile = Absent
    /\ pc = "build"
    /\ result = None
    /\ bench = None
    /\ calibration = None
    /\ evaluation = None
    /\ training = None
    /\ referenda = [pc |-> "build", stored |-> Absent, before |-> Absent,
                    max_new |-> 0, max_gaps |-> 0, last |-> -1, attempted |-> 0,
                    gap_streak |-> 0, next_id |-> 0, df |-> <<>>, failures |-> <<>>,
                    log |-> <<>>, raised |-> FALSE]
    /\ governor = None
    /\ mainrun = None
    /\ race = None

ReferendaFrame ==
    UNCHANGED <<context, rates, modelFile, pc, result, bench, calibration, evaluation,
                training, governor, mainrun, race>>

\* the workbook left by earlier runs
StoreSheet(stored) ==
    /\ referenda.pc = "build"
    /\ referenda' = [referenda EXCEPT !.stored = stored, !.before = stored]
    /\ ReferendaFrame

\* update_referenda(max_new, max_gaps), lines 233-236: up to the loop
StartUpdate(max_new, max_gaps) ==
    /\ referenda.pc = "build"
    /\ LET last == LastStoredId(referenda.stored)
       IN  referenda' = [referenda EXCEPT
                !.pc = "loop", !.max_new = max_new, !.max_gaps = max_gaps,
                !.last = last, !.next_id = last + 1,
                !.df = IF referenda.stored = Absent THEN <<>> ELSE referenda.stored.rows]
    /\ ReferendaFrame

\* one pass of the loop of lines 238-291; log keeps the outcomes of the
\* attempts made
Attempt(outcome) ==
    /\ referenda.pc = "loop"
    /\ LoopRuns(referenda)
    /\ referenda' = [referenda EXCEPT
            !.attempted = @ + 1,
            !.df = DfAfter(@, referenda.next_id, outcome),
            !.failures = IF outcome.t = "row" THEN @ ELSE Append(@, referenda.next_id),
            !.gap_streak = GapStreakAfter(@, outcome),
            !.next_id = @ + 1,
            !.log = Append(@, outcome)]
    /\ ReferendaFrame

\* lines 293-305: ensure_workbook raises ImportError without openpyxl,
\* otherwise the frame replaces the Referenda sheet
Persist(openpyxl) ==
    /\ referenda.pc = "loop"
    /\ ~LoopRuns(referenda)
    /\ referenda' = [referenda EXCEPT
            !.pc = "done",
            !.raised = ~openpyxl,
            !.stored = IF openpyxl THEN [rows |-> referenda.df] ELSE @]
    /\ ReferendaFrame

NextReferenda ==
    \/ \E stored \in StoredChoices : StoreSheet(stored)
    \/ \E max_new \in 0..MaxNew : \E max_gaps \in 0..MaxGaps : StartUpdate(max_new, max_gaps)
    \/ \E outcome \in CollectChoices : Attempt(outcome)
    \/ \E openpyxl \in BOOLEAN : Persist(openpyxl)

SpecReferenda == InitReferenda /\ [][NextReferenda]_vars

\* the rows of a sheet, none for a missing workbook
RowsOf(stored) == IF stored = Absent THEN <<>> ELSE stored.rows

NonGapRows(rows) == SelectSeq(rows, LAMBDA row : ~IsGapRow(row))

\* the ID of the last row that is not a gap row, -1 without one
LastNonGapId(stored) ==
    LET rows == NonGapRows(RowsOf(stored))
    IN  IF rows = <<>> THEN -1 ELSE rows[Len(rows)].id

\* every attempt of the run failed with Start, End and Status missing
AllGapAttempts(log) ==
    \A i \in 1..Len(log) : log[i].t = "incomplete" /\ KeyMissing \subseteq log[i].missing

\* C26: last_stored_id is the ID of the last stored row that is not a gap
\* row, and a run whose every attempt fails with Start, End and Status
\* missing persists only the non-gap rows.
C26_TrailingGapsTrimmed ==
    (referenda # None /\ referenda.pc # "build") =>
        /\ referenda.last = LastNonGapId(referenda.before)
        /\ (referenda.pc = "done" /\ ~referenda.raised /\ AllGapAttempts(referenda.log)) =>
                referenda.stored.rows = NonGapRows(RowsOf(referenda.before))

\* the streak the claim gives for a log of outcomes
RECURSIVE StreakOf(_)
StreakOf(log) ==
    IF log = <<>> THEN 0
    ELSE LET o == log[Len(log)]
             isGap == \/ o.t \in {"gap", "error"}
                      \/ o.t = "incomplete" /\ KeyMissing \subseteq o.missing
         IN  IF isGap THEN StreakOf(SubSeq(log, 1, Len(log) - 1)) + 1 ELSE 0

MaxAttempts == 3

\* truthy statuses pass for final: mutant
IsFinal_AnyStatus(status) == Truthy(status)

\* line 211: status and status not in {"Ongoing", "Deciding"}
IsFinal(status) == Truthy(status) /\ status.s \notin {"Ongoing", "Deciding"}

\* what query_proposal_status returns, lines 147-163
StatusChoices ==
    {None, Str(0), Name("Ongoing"), Name("Deciding"), Name("Approved"), Name("Rejected")}

\* what substrate.get_block_hash() returns
BlockHashChoices == {None, Name("0xdead")}

\* line 212: substrate.get_block_hash() or ""
HashOrEmpty(h) == IF Truthy(h) THEN h ELSE Str(0)

\* line 215
TimedOut == [raised |-> FALSE, block_hash |-> Str(0), outcome |-> Name("timeout")]

InitGovernor ==
    /\ context = <<>>
    /\ rates = [t |-> "raises"]
    /\ modelFile = Absent
    /\ pc = "build"
    /\ result = None
    /\ bench = None
    /\ calibration = None
    /\ evaluation = None
    /\ training = None
    /\ referenda = None
    /\ governor = [pc |-> "build", max_attempts |-> 0, polls |-> 0, seen |-> <<>>,
                   out |-> None]
    /\ mainrun = None
    /\ race = None

GovernorFrame ==
    UNCHANGED <<context, rates, modelFile, pc, result, bench, calibration, evaluation,
                training, referenda, mainrun, race>>

\* await_execution(..., max_attempts) up to the loop: connect(node_url)
\* returns or raises
AwaitExecution(max_attempts, connected) ==
    /\ governor.pc = "build"
    /\ governor' = IF connected
                   THEN [governor EXCEPT !.pc = "polling", !.max_attempts = max_attempts]
                   ELSE [governor EXCEPT !.pc = "done", !.max_attempts = max_attempts,
                                         !.out = Raised]
    /\ GovernorFrame

\* one pass of the loop of lines 209-214: seen keeps the statuses polled
Poll(status, block_hash) ==
    /\ governor.pc = "polling"
    /\ governor.polls < governor.max_attempts
    /\ governor' = IF IsFinal(status)
                   THEN [governor EXCEPT !.pc = "done", !.polls = @ + 1,
                                         !.seen = Append(@, status),
                                         !.out = [raised |-> FALSE,
                                                  block_hash |-> HashOrEmpty(block_hash),
                                                  outcome |-> status]]
                   ELSE [governor EXCEPT !.polls = @ + 1, !.seen = Append(@, status)]
    /\ GovernorFrame

\* query_proposal_status raises in a pass of the loop
PollRaises ==
    /\ governor.pc = "polling"
    /\ governor.polls < governor.max_attempts
    /\ governor' = [governor EXCEPT !.pc = "done", !.polls = @ + 1, !.out = Raised]
    /\ GovernorFrame

\* line 215: the range is exhausted
Timeout ==
    /\ governor.pc = "polling"
    /\ governor.polls = governor.max_attempts
    /\ governor' = [governor EXCEPT !.pc = "done", !.out = TimedOut]
    /\ GovernorFrame

PollStep ==
    \/ \E status \in StatusChoices : \E block_hash \in BlockHashChoices :
            Poll(status, block_hash)
    \/ PollRaises
    \/ Timeout

NextGovernor ==
    \/ \E max_attempts \in 0..MaxAttempts : \E connected \in BOOLEAN :
            AwaitExecution(max_attempts, connected)
    \/ \E status \in StatusChoices : \E block_hash \in BlockHashChoices :
            Poll(status, block_hash)
    \/ PollRaises
    \/ Timeout

\* a call under way is not suspended for ever: sleep and the query return
SpecGovernor == InitGovernor /\ [][NextGovernor]_vars /\ WF_vars(PollStep)

Awaited == governor # None /\ governor.pc = "done"

\* the statuses polled before the last one are none of them final
NoneFinal(seen) == \A i \in 1..Len(seen) : ~(Truthy(seen[i]) /\ seen[i].s \notin {"Ongoing", "Deciding"})

\* what the claim gives for a finished call that polled these statuses
ReturnsAsClaimed ==
    /\ ~governor.out.raised
    /\ governor.polls <= governor.max_attempts
    /\ governor.polls = Len(governor.seen)
    /\ IF governor.out.outcome = Name("timeout")
       THEN /\ governor.out = TimedOut
            /\ governor.polls = governor.max_attempts
            /\ NoneFinal(governor.seen)
       ELSE /\ governor.seen # <<>>
            /\ governor.out.outcome = governor.seen[Len(governor.seen)]
            /\ ~NoneFinal(governor.seen)
            /\ NoneFinal(SubSeq(governor.seen, 1, Len(governor.seen) - 1))
            /\ governor.out.block_hash \in {Str(0), Name("0xdead")}

SubmitChoices ==
    {Raised} \cup
    { [raised |-> FALSE, extrinsic_hash |-> h, referendum_index |-> i] :
        h \in {None, Str(0), Name("0xsub"), Name("0xsub2")},
        i \in {None, Num(1), Name("abc")} }

\* SUBSTRATE_NODE_URL and SUBSTRATE_PRIVATE_KEY, "" when unset (lines 370-371)
EnvChoices == {Str(0), Name("set")}

\* what await_execution gives main: an exception, or (block_hash, outcome)
AwaitChoices ==
    {Raised} \cup
    { [raised |-> FALSE, block_hash |-> h, outcome |-> o] :
        h \in {Str(0), Name("0xblock")},
        o \in {Name("Approved"), Name("Rejected"), Name("Cancelled"), Name("timeout")} }

\* what execute_proposal gives main: an exception, or the receipt
ExecuteChoices ==
    { Raised,
      [raised |-> FALSE, d |-> [block_hash |-> Name("0xexecblock"), extrinsic_hash |-> Name("0xexec")]],
      [raised |-> FALSE, d |-> [block_hash |-> Name("0xexecblock")]] }

\* line 386: int(proposal_receipt.get("referendum_index", 0) or 0) raises on
\* a string that is no integer
IndexRaises(i) == i.t = "str"

IndexOf(i) == IF Truthy(i) THEN i.v ELSE 0

\* lines 376-389: submission_id and referendum_index after the submission
Submission(sub) ==
    IF sub.raised \/ IndexRaises(sub.referendum_index)
    THEN [submission_id |-> None, referendum_index |-> 0]
    ELSE [submission_id |-> sub.extrinsic_hash,
          referendum_index |-> IndexOf(sub.referendum_index)]

\* record_proposal(proposal_text, submission_id, stage=stage)
ProposalRecord(stage, submission_id) ==
    [kind |-> "proposal", stage |-> stage, submission_id |-> submission_id]

\* record_execution_result(status, block_hash, outcome, submission_id,
\* extrinsic_hash); referendum_index is not kept
ExecutionRecord(status, block_hash, outcome, submission_id, extrinsic_hash) ==
    [kind |-> "execution", status |-> status, block_hash |-> block_hash,
     outcome |-> outcome, submission_id |-> submission_id,
     extrinsic_hash |-> extrinsic_hash]

\* lines 396-402: (block_hash, outcome) after awaiting
AwaitedPair(submission_id, awaited) ==
    IF awaited.raised THEN [block_hash |-> submission_id, outcome |-> Name("pending")]
    ELSE [block_hash |-> awaited.block_hash, outcome |-> awaited.outcome]

\* the awaited outcome is recorded as status for Approved too: mutant
ApprovedRecord_OutcomeAsStatus(submission_id, executed) ==
    IF executed.raised
    THEN ExecutionRecord(Name("execution_failed"), Str(0), Name("Approved"), submission_id, Str(0))
    ELSE ExecutionRecord(Name("Approved"), GetOr(executed.d, "block_hash", Str(0)),
                         Name("Approved"), submission_id,
                         GetOr(executed.d, "extrinsic_hash", Str(0)))

\* lines 403-421: the record for outcome "Approved"
ApprovedRecord(submission_id, executed) ==
    IF executed.raised
    THEN ExecutionRecord(Name("execution_failed"), Str(0), Name("Approved"), submission_id, Str(0))
    ELSE ExecutionRecord(Name("Executed"), GetOr(executed.d, "block_hash", Str(0)),
                         Name("Approved"), submission_id,
                         GetOr(executed.d, "extrinsic_hash", Str(0)))

InitMain ==
    /\ context = <<>>
    /\ rates = [t |-> "raises"]
    /\ modelFile = Absent
    /\ pc = "build"
    /\ result = None
    /\ bench = None
    /\ calibration = None
    /\ evaluation = None
    /\ training = None
    /\ referenda = None
    /\ governor = None
    /\ mainrun = [pc |-> "submit", node_url |-> Str(0), private_key |-> Str(0), sub |-> None, awaited |-> None, executed |-> None,
                  submission_id |-> None, referendum_index |-> 0,
                  block_hash |-> None, outcome |-> None, records |-> <<>>]
    /\ race = None

MainFrame ==
    UNCHANGED <<context, rates, modelFile, pc, result, bench, calibration, evaluation,
                training, referenda, governor, race>>

\* lines 370-389 with SUBSTRATE_NODE_URL and SUBSTRATE_PRIVATE_KEY set
Submit(node_url, private_key, sub) ==
    /\ mainrun.pc = "submit"
    /\ Truthy(node_url) /\ Truthy(private_key)
    /\ LET r == Submission(sub)
       IN  mainrun' = [mainrun EXCEPT !.pc = "record_final", !.sub = sub,
                                      !.node_url = node_url, !.private_key = private_key,
                                      !.submission_id = r.submission_id,
                                      !.referendum_index = r.referendum_index]
    /\ MainFrame

\* lines 370-376 with one of the two unset: nothing is submitted
SkipSubmit(node_url, private_key) ==
    /\ mainrun.pc = "submit"
    /\ ~(Truthy(node_url) /\ Truthy(private_key))
    /\ mainrun' = [mainrun EXCEPT !.pc = "record_final",
                                  !.node_url = node_url, !.private_key = private_key]
    /\ MainFrame

\* line 391
RecordFinal ==
    /\ mainrun.pc = "record_final"
    /\ mainrun' = [mainrun EXCEPT !.pc = "record_submitted",
                                  !.records = Append(@, ProposalRecord("final", None))]
    /\ MainFrame

\* line 392 and the test of line 393
RecordSubmitted ==
    /\ mainrun.pc = "record_submitted"
    /\ mainrun' = [mainrun EXCEPT
            !.pc = IF Truthy(mainrun.submission_id) THEN "await" ELSE "failed",
            !.records = Append(@, ProposalRecord("submitted", mainrun.submission_id))]
    /\ MainFrame

\* lines 395-402, and the record of lines 422-430 for an outcome that is
\* not "Approved"
Await(awaited) ==
    /\ mainrun.pc = "await"
    /\ LET r == AwaitedPair(mainrun.submission_id, awaited)
       IN  mainrun' = IF r.outcome = Name("Approved")
                      THEN [mainrun EXCEPT !.pc = "execute", !.awaited = awaited,
                                           !.block_hash = r.block_hash,
                                           !.outcome = r.outcome]
                      ELSE [mainrun EXCEPT !.pc = "done", !.awaited = awaited,
                                           !.block_hash = r.block_hash,
                                           !.outcome = r.outcome,
                                           !.records = Append(@,
                                               ExecutionRecord(r.outcome, r.block_hash, r.outcome,
                                                               mainrun.submission_id, Str(0)))]
    /\ MainFrame

\* lines 403-421
Execute(executed) ==
    /\ mainrun.pc = "execute"
    /\ mainrun' = [mainrun EXCEPT !.pc = "done", !.executed = executed,
                                  !.records = Append(@, ApprovedRecord(mainrun.submission_id, executed))]
    /\ MainFrame

\* lines 431-439
RecordFailed ==
    /\ mainrun.pc = "failed"
    /\ mainrun' = [mainrun EXCEPT
            !.pc = "done",
            !.records = Append(@, ExecutionRecord(Name("failed"), Str(0), Name("error"), None, Str(0)))]
    /\ MainFrame

NextMain ==
    \/ \E node_url \in EnvChoices : \E private_key \in EnvChoices :
          \E sub \in SubmitChoices : Submit(node_url, private_key, sub)
    \/ \E node_url \in EnvChoices : \E private_key \in EnvChoices :
          SkipSubmit(node_url, private_key)
    \/ RecordFinal
    \/ RecordSubmitted
    \/ \E awaited \in AwaitChoices : Await(awaited)
    \/ \E executed \in ExecuteChoices : Execute(executed)
    \/ RecordFailed

\* a run that has reached line 370 goes on to its end: every call returns
\* or raises
SpecMain == InitMain /\ [][NextMain]_vars /\ WF_vars(NextMain)

MainDone == mainrun # None /\ mainrun.pc = "done"

ExecutionRecords(records) == SelectSeq(records, LAMBDA r : r.kind = "execution")

\* the submission returned an extrinsic hash
ReturnedHash(sub) == sub # None /\ ~sub.raised /\ Truthy(sub.extrinsic_hash)

\* the finished run's records: final, submitted, then one execution result
\* whose status follows the claim's four cases
RecordsAsClaimed ==
    /\ Len(mainrun.records) = 3
    /\ mainrun.records[1].kind = "proposal" /\ mainrun.records[1].stage = "final"
    /\ mainrun.records[2].kind = "proposal" /\ mainrun.records[2].stage = "submitted"
    /\ LET rec == mainrun.records[3]
           approved == /\ mainrun.awaited # None
                       /\ ~mainrun.awaited.raised
                       /\ mainrun.awaited.outcome = Name("Approved")
           succeeded == mainrun.executed # None /\ ~mainrun.executed.raised
       IN  /\ rec.kind = "execution"
           /\ rec.status = Name("Executed") <=>
                 (ReturnedHash(mainrun.sub) /\ approved /\ succeeded)
           /\ rec.status = Name("Executed") =>
                 /\ rec.block_hash = GetOr(mainrun.executed.d, "block_hash", Str(0))
                 /\ rec.extrinsic_hash = GetOr(mainrun.executed.d, "extrinsic_hash", Str(0))
           /\ (mainrun.executed # None /\ mainrun.executed.raised) =>
                 rec.status = Name("execution_failed")
           /\ (mainrun.awaited # None /\ ~approved) =>
                 /\ rec.outcome = IF mainrun.awaited.raised THEN Name("pending")
                                  ELSE mainrun.awaited.outcome
                 /\ rec.status = rec.outcome
           /\ ~Truthy(mainrun.submission_id) =>
                 /\ rec.status = Name("failed")
                 /\ rec.outcome = Name("error")

Writers == {1, 2}

\* the lines json.dump(model, f, indent=2) writes for a model: four for
\* empty coefficients, five and one per coefficient otherwise
LineCount(model) ==
    LET n == Cardinality(DOMAIN model.d.coefficients.d)
    IN  IF n = 0 THEN 2 + 2 ELSE 2 + 3 + n

\* the text of the model file for a model, line by line
TextOf(model) == [i \in 1..LineCount(model) |-> [of |-> model, line |-> i]]

\* the models written in the race: the one stored before and those of the
\* training runs
OldModel ==
    Dict([intercept |-> Num(200),
          coefficients |-> Dict([sentiment |-> Num(1500), approval_rate |-> Num(1000)])])

TrainedModels == FittedChoices \cup {ZeroModel}

RaceModels == TrainedModels \cup {OldModel}

\* json.load of a file with this text (lines 24-26 of outcome_forecaster.py)
FileOf(text) ==
    IF \E m \in RaceModels : text = TextOf(m)
    THEN Json(CHOOSE m \in RaceModels : text = TextOf(m))
    ELSE Corrupt

\* write() at offset 0 of a file opened with "w" by this writer: the bytes
\* beyond the text written, left by another writer, stay
Overwrite(file, text) ==
    IF Len(file) > Len(text) THEN text \o SubSeq(file, Len(text) + 1, Len(file)) ELSE text

RaceContexts ==
    { <<>>, [sentiment_score |-> Num(500)] }

InitRace ==
    /\ context = <<>>
    /\ rates = [t |-> "raises"]
    /\ modelFile = Absent
    /\ pc = "build"
    /\ result = None
    /\ bench = None
    /\ calibration = None
    /\ evaluation = None
    /\ training = None
    /\ referenda = None
    /\ governor = None
    /\ mainrun = None
    /\ race = [file |-> TextOf(OldModel),
               w |-> [i \in Writers |-> [pc |-> "idle", model |-> None]],
               ctx |-> <<>>, reader |-> "idle", seen |-> None, out |-> None]

RaceFrame ==
    UNCHANGED <<context, rates, modelFile, pc, result, bench, calibration, evaluation,
                training, referenda, governor, mainrun>>

\* train_and_save lines 116-120 in run i: the model is trained
Train(i, model) ==
    /\ race.w[i].pc = "idle"
    /\ race' = [race EXCEPT !.w[i] = [pc |-> "trained", model |-> model]]
    /\ RaceFrame

\* line 121: MODEL_PATH.open("w") truncates the file
OpenTruncate(i) ==
    /\ race.w[i].pc = "trained"
    /\ race' = [race EXCEPT !.w[i].pc = "open", !.file = <<>>]
    /\ RaceFrame

\* lines 122-123: json.dump fills the buffer, leaving the with block
\* flushes it to the file and closes
DumpClose(i) ==
    /\ race.w[i].pc = "open"
    /\ race' = [race EXCEPT !.w[i].pc = "done",
                            !.file = Overwrite(@, TextOf(race.w[i].model))]
    /\ RaceFrame

\* forecast_outcomes(ctx) in another process: _load_model at line 141 reads
\* the file as it is
ForecastDuring(ctx) ==
    /\ race.reader = "idle"
    /\ race' = [race EXCEPT !.reader = "done", !.ctx = ctx, !.seen = FileOf(race.file),
                            !.out = ForecastOutcomes(ctx, [t |-> "raises"], FileOf(race.file))]
    /\ RaceFrame

NextRace ==
    \/ \E i \in Writers : \E model \in TrainedModels : Train(i, model)
    \/ \E i \in Writers : OpenTruncate(i)
    \/ \E i \in Writers : DumpClose(i)
    \/ \E ctx \in RaceContexts : ForecastDuring(ctx)

SpecRace == InitRace /\ [][NextRace]_vars

\* the models the forecast may use: the stored one and those of the runs
\* that have written theirs in full
CompleteModels ==
    {OldModel} \cup {race.w[i].model : i \in {j \in Writers : race.w[j].pc = "done"}}

\* C30: a forecast made while training runs computes approval_prob from the
\* model stored before or from one a training run has written in full,
\* never from the heuristic, and when every run that started has finished
\* the file holds the model of one of them.
C30_ForecastSeesCompleteModel ==
    race # None =>
        /\ race.reader = "done" =>
              /\ race.seen \in {Json(m) : m \in CompleteModels}
              /\ race.out = ForecastOutcomes(race.ctx, [t |-> "raises"], race.seen)
              /\ race.out.model_applied
        /\ ((\A i \in Writers : race.w[i].pc \in {"idle", "done"})
              /\ (\E i \in Writers : race.w[i].pc = "done")) =>
              \E i \in Writers : race.w[i].pc = "done" /\ race.file = TextOf(race.w[i].model)

====
